---- MODULE Spec2Model ----
(***************************************************************************)
(* Orchestration layer of the code browser generator: the project          *)
(* registry (ProjectManager), the two guard sets (ProcessedSet and         *)
(* exists_files_), the keyed output streams (RefFile / FileIndex) and the  *)
(* two-phase dispatch loop of main().                                      *)
(*                                                                         *)
(* Paths, project names and command tokens are TLA+ strings; Len, \o and   *)
(* SubSeq act on them character by character.                              *)
(***************************************************************************)
EXTENDS Integers, Sequences, FiniteSets, Bags, TLC

VARIABLES
    projects,        \* ProjectManager::projects, a sequence of ProjectInfo
    addResult,       \* return value of the last addProject call
    processed_,      \* ProcessedSet::processed_
    processedMutex,  \* ProcessedSet::mutex_: the thread holding it, 0 when free
    exists_files_,   \* ProjectManager::exists_files_
    pmMutex,         \* ProjectManager::mutex_: the thread holding it, 0 when free
    pc,              \* per thread: the statement it is at
    arg,             \* per thread: the call it is in, a Call(map, key, line)
    suc,             \* per thread: the local result of the set insertion
    history,         \* the calls that have returned: a bag of [op, key, ret]
    calls,           \* number of calls started so far
    consumers,       \* the identities a BrowserASTConsumer was built for, in order
    ref_files,       \* ProjectManager::ref_files: key -> RefFile
    func_index_files, \* ProjectManager::func_index_files: key -> RefFile
    file_index_,     \* ProjectManager::file_index_
    cl,              \* the command line and what it names: options, database
    main,            \* main(): where it is (pc) and its local variables
    pool,            \* thread_pool: the queue and what each worker runs
    out,             \* files main() writes itself: pages and otherIndex
    log              \* what main() did with each file, and each Job's end

regVars == <<projects, addResult>>
guardVars == <<processed_, processedMutex, exists_files_, pmMutex>>
threadVars == <<pc, arg, suc, history, calls, consumers>>
streamVars == <<ref_files, func_index_files, file_index_>>
dispatchVars == <<cl, main, pool, out, log>>
vars == <<regVars, guardVars, threadVars, streamVars, dispatchVars>>

(***************************************************************************)
(* Bounds of the model.                                                    *)
(***************************************************************************)
MaxProjects == 4
NThreads == 2
MaxCalls == 3

\* the worker threads of the pool; thread 0 is the main thread
Threads == 1..NThreads

(***************************************************************************)
(* Strings.                                                                *)
(***************************************************************************)
\* llvm::StringRef::startswith
startswith(s, prefix) ==
    /\ Len(prefix) <= Len(s)
    /\ SubSeq(s, 1, Len(prefix)) = prefix

\* llvm::StringRef::endswith
endswith(s, suffix) ==
    /\ Len(suffix) <= Len(s)
    /\ SubSeq(s, Len(s) - Len(suffix) + 1, Len(s)) = suffix

\* llvm::StringRef::substr(start) with a 0-based start
substr(s, start) ==
    IF start >= Len(s) THEN "" ELSE SubSeq(s, start + 1, Len(s))

\* the character of s at 1-based position i, as a string of length one
charAt(s, i) == SubSeq(s, i, i)

(***************************************************************************)
(* canonicalize() of filesystem.h: the absolute path without its trailing  *)
(* slashes (the root directory stays "/").                                 *)
(***************************************************************************)
RECURSIVE canonicalize(_)
canonicalize(path) ==
    IF Len(path) > 1 /\ charAt(path, Len(path)) = "/"
    THEN canonicalize(SubSeq(path, 1, Len(path) - 1))
    ELSE path

(***************************************************************************)
(* ProjectInfo and the registry.                                           *)
(***************************************************************************)
ProjectInfo(name, source_path, revision, type) ==
    [name |-> name, source_path |-> source_path, revision |-> revision,
     external_root_url |-> "", type |-> type]

\* ProjectManager::systemProjects(), registered by the constructor
systemProjects ==
    << ProjectInfo("include", "/usr/include", "", "Internal") >>

\* an addProject that does not add the trailing slash
addProjectTo_NoSlash(projs, info) ==
    IF info.source_path = "" THEN projs
    ELSE Append(projs, [info EXCEPT !.source_path = canonicalize(@)])

\* the projects vector after addProject(info), from a given vector
addProjectTo(projs, info) ==
    IF info.source_path = "" THEN projs
    ELSE LET filename == canonicalize(info.source_path) IN
         IF filename = "" THEN projs
         ELSE LET slashed == IF charAt(filename, Len(filename)) # "/"
                             THEN filename \o "/" ELSE filename
              IN Append(projs, [info EXCEPT !.source_path = slashed])

\* the value addProject(info) returns
addProjectResult(info) ==
    /\ info.source_path # ""
    /\ canonicalize(info.source_path) # ""

\* mutant: no project is skipped, the last matching project wins
skipShorter_Never(source_path, match_length) == FALSE

\* the longest-match test of projectForFile's loop: a project whose
\* source_path is shorter than the current match is skipped
skipShorter(source_path, match_length) == Len(source_path) < match_length

\* the loop of projectForFile over projs[i..]; the result is an index into
\* projs, 0 standing for nullptr
RECURSIVE projectForFileLoop(_, _, _, _, _)
projectForFileLoop(projs, filename, i, match_length, result) ==
    IF i > Len(projs) THEN result
    ELSE LET source_path == projs[i].source_path IN
         IF skipShorter(source_path, match_length)
         THEN projectForFileLoop(projs, filename, i + 1, match_length, result)
         ELSE IF startswith(filename, source_path)
              THEN projectForFileLoop(projs, filename, i + 1, Len(source_path), i)
              ELSE projectForFileLoop(projs, filename, i + 1, match_length, result)

projectForFileIn(projs, filename) == projectForFileLoop(projs, filename, 1, 0, 0)

projectForFile(filename) == projectForFileIn(projects, filename)

(***************************************************************************)
(* The registry on its own: any sequence of addProject calls.              *)
(***************************************************************************)
\* the ProjectInfo values handed to addProject
ProjectCandidates ==
    { ProjectInfo("base", "/src", "", "Normal"),
      ProjectInfo("app", "/src/app/", "r1", "Normal"),
      ProjectInfo("app2", "/src/app", "", "Normal"),
      ProjectInfo("ext", "/src/ext", "", "External"),
      ProjectInfo("bad", "", "", "Normal") }

\* the paths resolved against the registry
Paths ==
    { "/src/app/main.cc", "/src/app/main.h", "/src/lib.cc",
      "/src/application.cc", "/src/ext/e.cc", "/tmp/x.cc" }

ConstructedProjects ==
    LET RECURSIVE addAll(_, _)
        addAll(projs, i) ==
            IF i > Len(systemProjects) THEN projs
            ELSE addAll(addProjectTo(projs, systemProjects[i]), i + 1)
    IN addAll(<< >>, 1)

\* what a thread is called with: the set or the map of streams the call
\* works on, the key (an identity, a path or a stream key) and, for an
\* append, the line (0: none)
Call(map, key, line) == [map |-> map, key |-> key, line |-> line]

\* a RefFile or FileIndex as its constructor leaves it: the mutex free (0),
\* nothing written through the handle yet; nth tells the objects constructed
\* for one key apart: this is the first
OpenedFile == [mutex_ |-> 0, ofs_ |-> << >>, nth |-> 1]

\* the guard sets, the mutexes, the streams and the threads after construction
InitIdle ==
    /\ processed_ = {}
    /\ processedMutex = 0
    /\ exists_files_ = {}
    /\ pmMutex = 0
    /\ pc = [t \in Threads |-> "idle"]
    /\ arg = [t \in Threads |-> Call("", "", 0)]
    /\ suc = [t \in Threads |-> FALSE]
    /\ history = EmptyBag
    /\ calls = 0
    /\ consumers = << >>
    /\ ref_files = << >>
    /\ func_index_files = << >>
    /\ file_index_ = OpenedFile

\* main() is not running
InitNoMain ==
    /\ cl = [ProjectPaths |-> << >>, ExternalProjectPaths |-> << >>,
             SourcePaths |-> << >>, ProcessAllSources |-> FALSE,
             Compilations |-> "none"]
    /\ main = [pc |-> "none"]
    /\ pool = [queue |-> << >>, running |-> EmptyBag]
    /\ out = [pages |-> {}, otherIndex |-> << >>]
    /\ log = [submitted |-> << >>, classified |-> << >>, delayed |-> << >>,
              finished |-> EmptyBag]

InitRegistry ==
    /\ projects = ConstructedProjects
    /\ addResult = TRUE
    /\ InitIdle
    /\ InitNoMain

AddProject(info) ==
    /\ Len(projects) < MaxProjects
    /\ projects' = addProjectTo(projects, info)
    /\ addResult' = addProjectResult(info)
    /\ UNCHANGED <<guardVars, threadVars, streamVars, dispatchVars>>

NextRegistry == \E info \in ProjectCandidates : AddProject(info)

SpecRegistry == InitRegistry /\ [][NextRegistry]_vars

(***************************************************************************)
(* Claims about the registry.                                              *)
(***************************************************************************)
\* a is a prefix of b
IsPrefix(a, b) == \E n \in 0..Len(b) : SubSeq(b, 1, n) = a

\* the registered projects whose source_path is a prefix of p
Matching(p) ==
    { j \in 1..Len(projects) : IsPrefix(projects[j].source_path, p) }

\* C3: projectForFile(p) returns a project whose source_path is a prefix of
\* p and is the longest among the registered prefixes of p, whatever the
\* registration order, and returns none exactly when no registered
\* source_path is a prefix of p; with /src/ and /src/app/ registered,
\* /src/app/main.cc resolves to /src/app/ and /src/lib.cc to /src/.
C3_LongestPrefixMatch ==
    /\ \A p \in Paths :
          LET r == projectForFile(p) IN
          /\ (r = 0) <=> (Matching(p) = {})
          /\ r # 0 =>
                /\ r \in Matching(p)
                /\ \A j \in Matching(p) :
                      Len(projects[j].source_path) <= Len(projects[r].source_path)
    /\ (/\ \E i \in 1..Len(projects) : projects[i].source_path = "/src/"
        /\ \E i \in 1..Len(projects) : projects[i].source_path = "/src/app/")
       => /\ projects[projectForFile("/src/app/main.cc")].source_path = "/src/app/"
          /\ projects[projectForFile("/src/lib.cc")].source_path = "/src/"
          /\ projects[projectForFile("/src/application.cc")].source_path = "/src/"

\* the longer prefix was registered before the shorter one and still wins
C3_Witness ==
    \E i, j \in 1..Len(projects) :
        /\ i < j
        /\ projects[i].source_path = "/src/app/"
        /\ projects[j].source_path = "/src/"
        /\ projectForFile("/src/app/main.cc") = i
        /\ projectForFile("/tmp/x.cc") = 0

\* C4: if projectForFile(p) returns project A, then after an addProject of a
\* project whose source_path is strictly shorter than A's, projectForFile(p)
\* still returns A.
C4_ShorterPrefixKeepsResult ==
    [][ \A p \in Paths :
          LET A == projectForFile(p)
              n == Len(projects')
          IN (/\ A # 0
              /\ n = Len(projects) + 1
              /\ Len(projects'[n].source_path) < Len(projects[A].source_path))
             => projectForFileIn(projects', p) = A ]_vars

\* the project added last has a strictly shorter prefix of the path than the
\* project the path resolves to
C4_Witness ==
    LET n == Len(projects)
        A == projectForFile("/src/app/main.cc")
    IN /\ A # 0
       /\ A < n
       /\ IsPrefix(projects[n].source_path, "/src/app/main.cc")
       /\ Len(projects[n].source_path) < Len(projects[A].source_path)

(***************************************************************************)
(* Mutexes.  std::lock_guard blocks until the mutex is free and releases   *)
(* it when the scope is left.                                              *)
(***************************************************************************)
\* mutant: the lock excludes nobody
mutexFree_Always(owner) == TRUE

\* a lock_guard can be constructed on a mutex only while no thread holds it
mutexFree(owner) == owner = 0

\* a call that has returned
Returned(op, key, ret) == [op |-> op, key |-> key, ret |-> ret]

\* number of returned calls of op on key with result ret
Count(op, key, ret) == CopiesIn(Returned(op, key, ret), history)

(***************************************************************************)
(* Dedup Guard: workers entering BrowserAction::CreateASTConsumer, which   *)
(* calls ProcessedSet::try_insert.  The insertion into the std::set is a   *)
(* lookup followed by the linking of the new node.                         *)
(***************************************************************************)
\* the translation-unit identities (InFile) the workers are started on
Identities == { "/src/app/main.cc", "/src/lib.cc" }

CreateASTConsumer_Begin(t, InFile) ==
    /\ pc[t] = "idle"
    /\ calls < MaxCalls
    /\ calls' = calls + 1
    /\ arg' = [arg EXCEPT ![t] = Call("processed_", InFile, 0)]
    /\ pc' = [pc EXCEPT ![t] = "try_insert_lock"]
    /\ UNCHANGED <<dispatchVars, streamVars, regVars, guardVars, suc, history, consumers>>

try_insert_Lock(t) ==
    /\ pc[t] = "try_insert_lock"
    /\ mutexFree(processedMutex)
    /\ processedMutex' = t
    /\ pc' = [pc EXCEPT ![t] = "try_insert_find"]
    /\ UNCHANGED <<dispatchVars, streamVars, regVars, processed_, exists_files_, pmMutex,
                   arg, suc, history, calls, consumers>>

try_insert_Find(t) ==
    /\ pc[t] = "try_insert_find"
    /\ suc' = [suc EXCEPT ![t] = arg[t].key \notin processed_]
    /\ pc' = [pc EXCEPT ![t] = "try_insert_insert"]
    /\ UNCHANGED <<dispatchVars, streamVars, regVars, guardVars, arg, history, calls, consumers>>

try_insert_Insert(t) ==
    /\ pc[t] = "try_insert_insert"
    /\ processed_' = IF suc[t] THEN processed_ \cup {arg[t].key} ELSE processed_
    /\ pc' = [pc EXCEPT ![t] = "try_insert_return"]
    /\ UNCHANGED <<dispatchVars, streamVars, regVars, processedMutex, exists_files_, pmMutex,
                   arg, suc, history, calls, consumers>>

\* a try_insert that returns with the mutex still locked
try_insert_Return_KeepsLock(t) ==
    /\ pc[t] = "try_insert_return"
    /\ processedMutex' = processedMutex
    /\ history' = history (+) SetToBag({Returned("try_insert", arg[t].key, suc[t])})
    /\ pc' = [pc EXCEPT ![t] = "CreateASTConsumer_end"]
    /\ UNCHANGED <<dispatchVars, streamVars, regVars, processed_, exists_files_, pmMutex,
                   arg, suc, calls, consumers>>

try_insert_Return(t) ==
    /\ pc[t] = "try_insert_return"
    /\ processedMutex' = 0
    /\ history' = history (+) SetToBag({Returned("try_insert", arg[t].key, suc[t])})
    /\ pc' = [pc EXCEPT ![t] = "CreateASTConsumer_end"]
    /\ UNCHANGED <<dispatchVars, streamVars, regVars, processed_, exists_files_, pmMutex,
                   arg, suc, calls, consumers>>

CreateASTConsumer_End(t) ==
    /\ pc[t] = "CreateASTConsumer_end"
    /\ consumers' = IF suc[t] THEN Append(consumers, arg[t].key) ELSE consumers
    /\ pc' = [pc EXCEPT ![t] = "idle"]
    /\ UNCHANGED <<dispatchVars, streamVars, regVars, guardVars, arg, suc, history, calls>>

NextDedup ==
    \E t \in Threads :
        \/ \E InFile \in Identities : CreateASTConsumer_Begin(t, InFile)
        \/ try_insert_Lock(t)
        \/ try_insert_Find(t)
        \/ try_insert_Insert(t)
        \/ try_insert_Return(t)
        \/ CreateASTConsumer_End(t)

SpecDedup == InitRegistry /\ [][NextDedup]_vars

\* the threads that are inside CreateASTConsumer for identity id
InCreateASTConsumer(id) ==
    { t \in Threads : pc[t] # "idle" /\ arg[t].key = id }

\* number of BrowserASTConsumer objects built for identity id
Built(id) == Cardinality({ i \in 1..Len(consumers) : consumers[i] = id })

\* C1: for every identity and every interleaving of concurrent try_insert
\* calls, exactly one call returns true and all others return false, so a
\* BrowserASTConsumer is built at most once per identity.
C1_DedupAtMostOnce ==
    \A id \in Identities :
        /\ Count("try_insert", id, TRUE) <= 1
        /\ Built(id) <= 1
        /\ Count("try_insert", id, FALSE) > 0 => id \in processed_
        /\ (/\ InCreateASTConsumer(id) = {}
            /\ Count("try_insert", id, TRUE) + Count("try_insert", id, FALSE) > 0)
           => /\ Count("try_insert", id, TRUE) = 1
              /\ Built(id) = 1

\* one identity was offered by several calls: one was admitted, the others
\* refused, and the consumer was built once
C1_Witness ==
    \E id \in Identities :
        /\ Count("try_insert", id, TRUE) = 1
        /\ Count("try_insert", id, FALSE) >= 2
        /\ Built(id) = 1

(***************************************************************************)
(* Existence Guard: threads calling ProjectManager::shouldProcess with the *)
(* project projectForFile returned, as every caller does.                  *)
(***************************************************************************)
\* the -o option: ProjectManager::outputPrefix
outputPrefix == "/out"

\* the output page of filename in project, as shouldProcess computes it
outputPath(project, filename) ==
    outputPrefix \o "/" \o project.name \o "/"
        \o substr(filename, Len(project.source_path)) \o ".html"

\* the ownership test without its test of the project type
shouldProcess0_NoExternalCheck(p) == p # 0

\* shouldProcess0, and the tests shouldProcess starts with: is there a
\* project, and is it not External (p is an index into projects, 0 for none)
shouldProcess0(p) ==
    /\ p # 0
    /\ projects[p].type # "External"

RECURSIVE addAllProjects(_, _, _)
addAllProjects(projs, infos, i) ==
    IF i > Len(infos) THEN projs
    ELSE addAllProjects(addProjectTo(projs, infos[i]), infos, i + 1)

\* a registry with nested roots, an External project and two projects that
\* share a name
RegisteredProjects ==
    addAllProjects(ConstructedProjects,
        << ProjectInfo("base", "/src", "", "Normal"),
           ProjectInfo("app", "/src/app", "r1", "Normal"),
           ProjectInfo("ext", "/src/ext", "", "External"),
           ProjectInfo("app", "/opt/app", "", "Normal") >>, 1)

\* the files shouldProcess is called for
GuardFiles ==
    { "/src/app/main.cc", "/opt/app/main.cc", "/src/lib.cc",
      "/src/ext/e.cc", "/tmp/x.cc" }

InitExists ==
    /\ projects = RegisteredProjects
    /\ addResult = TRUE
    /\ InitIdle
    /\ InitNoMain

shouldProcess_Begin(t, filename) ==
    /\ pc[t] = "idle"
    /\ calls < MaxCalls
    /\ calls' = calls + 1
    /\ arg' = [arg EXCEPT ![t] = Call("exists_files_", filename, 0)]
    /\ pc' = [pc EXCEPT ![t] = "shouldProcess"]
    /\ UNCHANGED <<dispatchVars, streamVars, regVars, guardVars, suc, history, consumers>>

\* no project, or an External one: return false without touching the set
shouldProcess_Reject(t) ==
    /\ pc[t] = "shouldProcess"
    /\ ~shouldProcess0(projectForFile(arg[t].key))
    /\ history' = history (+) SetToBag({Returned("shouldProcess_rejected", arg[t].key, FALSE)})
    /\ pc' = [pc EXCEPT ![t] = "idle"]
    /\ UNCHANGED <<dispatchVars, streamVars, regVars, guardVars, arg, suc, calls, consumers>>

\* compute fn and call addFile_Locked(fn)
shouldProcess_Call(t) ==
    /\ pc[t] = "shouldProcess"
    /\ shouldProcess0(projectForFile(arg[t].key))
    /\ pc' = [pc EXCEPT ![t] = "addFile_lock"]
    /\ arg' = [arg EXCEPT ![t].key =
                  outputPath(projects[projectForFile(arg[t].key)], arg[t].key)]
    /\ UNCHANGED <<dispatchVars, streamVars, regVars, guardVars, suc, history, calls, consumers>>

addFile_Lock(t) ==
    /\ pc[t] = "addFile_lock"
    /\ mutexFree(pmMutex)
    /\ pmMutex' = t
    /\ pc' = [pc EXCEPT ![t] = "addFile_find"]
    /\ UNCHANGED <<dispatchVars, streamVars, regVars, processed_, processedMutex, exists_files_,
                   arg, suc, history, calls, consumers>>

addFile_Find(t) ==
    /\ pc[t] = "addFile_find"
    /\ suc' = [suc EXCEPT ![t] = arg[t].key \notin exists_files_]
    /\ pc' = [pc EXCEPT ![t] = "addFile_insert"]
    /\ UNCHANGED <<dispatchVars, streamVars, regVars, guardVars, arg, history, calls, consumers>>

addFile_Insert(t) ==
    /\ pc[t] = "addFile_insert"
    /\ exists_files_' = IF suc[t] THEN exists_files_ \cup {arg[t].key}
                        ELSE exists_files_
    /\ pc' = [pc EXCEPT ![t] = "addFile_return"]
    /\ UNCHANGED <<dispatchVars, streamVars, regVars, processed_, processedMutex, pmMutex,
                   arg, suc, history, calls, consumers>>

\* addFile_Locked returns suc, and shouldProcess returns it in turn
addFile_Return(t) ==
    /\ pc[t] = "addFile_return"
    /\ pmMutex' = 0
    /\ history' = history (+) SetToBag({Returned("shouldProcess", arg[t].key, suc[t])})
    /\ pc' = [pc EXCEPT ![t] = "idle"]
    /\ UNCHANGED <<dispatchVars, streamVars, regVars, processed_, processedMutex, exists_files_,
                   arg, suc, calls, consumers>>

NextExists ==
    \E t \in Threads :
        \/ \E filename \in GuardFiles : shouldProcess_Begin(t, filename)
        \/ shouldProcess_Reject(t)
        \/ shouldProcess_Call(t)
        \/ addFile_Lock(t)
        \/ addFile_Find(t)
        \/ addFile_Insert(t)
        \/ addFile_Return(t)

SpecExists == InitExists /\ [][NextExists]_vars

\* the output paths of the files a non-External project owns
OutputPaths ==
    { outputPath(projects[projectForFile(f)], f) :
        f \in { g \in GuardFiles : shouldProcess0(projectForFile(g)) } }

\* the threads that are inside addFile_Locked(fn)
InAddFile(fn) ==
    { t \in Threads :
        /\ pc[t] \in {"addFile_lock", "addFile_find", "addFile_insert",
                      "addFile_return"}
        /\ arg[t].key = fn }

\* C2: for a non-null, non-External project, over all shouldProcess calls
\* that compute the same output path, in any interleaving, exactly one call
\* returns true and every other call returns false.
C2_ExistenceGuardOnce ==
    \A fn \in OutputPaths :
        /\ Count("shouldProcess", fn, TRUE) <= 1
        /\ Count("shouldProcess", fn, FALSE) > 0 => fn \in exists_files_
        /\ (/\ InAddFile(fn) = {}
            /\ Count("shouldProcess", fn, TRUE)
                  + Count("shouldProcess", fn, FALSE) > 0)
           => Count("shouldProcess", fn, TRUE) = 1

\* an output path that two different files map to was claimed once and
\* refused twice
C2_Witness ==
    /\ Count("shouldProcess", "/out/app/main.cc.html", TRUE) = 1
    /\ Count("shouldProcess", "/out/app/main.cc.html", FALSE) >= 2
    /\ outputPath(projects[projectForFile("/src/app/main.cc")], "/src/app/main.cc")
          = outputPath(projects[projectForFile("/opt/app/main.cc")], "/opt/app/main.cc")

(***************************************************************************)
(* Output Aggregator: threads resolving a stream with GetRefFile or        *)
(* GetFuncIndexFile and appending with RefFile::AppendLine_Locked, or      *)
(* appending to the file index with AddFileIndex.  A call's argument is    *)
(* [map, key, line]; the line goes to the stream in two pieces, as a write *)
(* through a buffered stream is not one indivisible step.                  *)
(***************************************************************************)
\* the keyed streams the workers ask for: <<map, key>>, the key a project
\* name in ref_files and a symbol identifier in func_index_files
StreamIds ==
    { <<"ref_files", "app">>, <<"ref_files", "base">>,
      <<"func_index_files", "app">> }

\* the name of the stream a call works on
streamOf(a) == a.map \o ":" \o a.key

\* the RefFile or FileIndex a call works on
fileOf(a) ==
    IF a.map = "ref_files" THEN ref_files[a.key]
    ELSE IF a.map = "func_index_files" THEN func_index_files[a.key]
    ELSE file_index_

\* an emplace that constructs a RefFile in any case and puts it in the place
\* of the one there is
try_emplace_Overwrites(files, key) ==
    (key :> [OpenedFile EXCEPT !.nth = IF key \in DOMAIN files
                                       THEN files[key].nth + 1 ELSE 1]) @@ files

\* the maps after try_emplace(key, key): an existing entry is left as it is
try_emplace(files, key) ==
    IF key \in DOMAIN files THEN files ELSE (key :> OpenedFile) @@ files

\* the handle of call a becomes f
setFile(a, f) ==
    /\ ref_files' = IF a.map = "ref_files"
                    THEN [ref_files EXCEPT ![a.key] = f] ELSE ref_files
    /\ func_index_files' = IF a.map = "func_index_files"
                           THEN [func_index_files EXCEPT ![a.key] = f]
                           ELSE func_index_files
    /\ file_index_' = IF a.map = "file_index_" THEN f ELSE file_index_

\* a worker calls GetRefFile(key) or GetFuncIndexFile(key) to append a line
GetRefFile_Begin(t, map, key) ==
    /\ pc[t] = "idle"
    /\ calls < MaxCalls
    /\ calls' = calls + 1
    /\ arg' = [arg EXCEPT ![t] = [map |-> map, key |-> key, line |-> calls + 1]]
    /\ pc' = [pc EXCEPT ![t] = "GetRefFile_lock"]
    /\ UNCHANGED <<dispatchVars, streamVars, regVars, guardVars, suc, history, consumers>>

GetRefFile_Lock(t) ==
    /\ pc[t] = "GetRefFile_lock"
    /\ mutexFree(pmMutex)
    /\ pmMutex' = t
    /\ pc' = [pc EXCEPT ![t] = "GetRefFile_emplace"]
    /\ UNCHANGED <<dispatchVars, streamVars, regVars, processed_, processedMutex,
                   exists_files_, arg, suc, history, calls, consumers>>

GetRefFile_Emplace(t) ==
    /\ pc[t] = "GetRefFile_emplace"
    /\ ref_files' = IF arg[t].map = "ref_files"
                    THEN try_emplace(ref_files, arg[t].key) ELSE ref_files
    /\ func_index_files' = IF arg[t].map = "func_index_files"
                           THEN try_emplace(func_index_files, arg[t].key)
                           ELSE func_index_files
    /\ pc' = [pc EXCEPT ![t] = "GetRefFile_return"]
    /\ UNCHANGED <<dispatchVars, file_index_, regVars, guardVars, arg, suc, history, calls,
                   consumers>>

\* a GetRefFile whose lock_guard outlives the call: the caller appends its
\* line with the registry mutex still locked
GetRefFile_Return_KeepsLock(t) ==
    /\ pc[t] = "GetRefFile_return"
    /\ pmMutex' = pmMutex
    /\ pc' = [pc EXCEPT ![t] = "AppendLine_lock"]
    /\ history' = history (+) SetToBag({Returned("GetRefFile", streamOf(arg[t]),
                                                 fileOf(arg[t]).nth)})
    /\ UNCHANGED <<dispatchVars, streamVars, regVars, processed_, processedMutex,
                   exists_files_, arg, suc, calls, consumers>>

\* the lock_guard releases the registry mutex and the call returns
\* itr->second; the caller appends its line
GetRefFile_Return(t) ==
    /\ pc[t] = "GetRefFile_return"
    /\ pmMutex' = 0
    /\ pc' = [pc EXCEPT ![t] = "AppendLine_lock"]
    /\ history' = history (+) SetToBag({Returned("GetRefFile", streamOf(arg[t]),
                                                 fileOf(arg[t]).nth)})
    /\ UNCHANGED <<dispatchVars, streamVars, regVars, processed_, processedMutex,
                   exists_files_, arg, suc, calls, consumers>>

\* AddFileIndex(s): file_index_.AppendLine_Locked(s), no map lookup
AddFileIndex_Begin(t) ==
    /\ pc[t] = "idle"
    /\ calls < MaxCalls
    /\ calls' = calls + 1
    /\ arg' = [arg EXCEPT ![t] =
                  [map |-> "file_index_", key |-> "fileIndex", line |-> calls + 1]]
    /\ pc' = [pc EXCEPT ![t] = "AppendLine_lock"]
    /\ UNCHANGED <<dispatchVars, streamVars, regVars, guardVars, suc, history, consumers>>

AppendLine_Lock(t) ==
    /\ pc[t] = "AppendLine_lock"
    /\ mutexFree(fileOf(arg[t]).mutex_)
    /\ setFile(arg[t], [fileOf(arg[t]) EXCEPT !.mutex_ = t])
    /\ pc' = [pc EXCEPT ![t] = "AppendLine_write1"]
    /\ UNCHANGED <<dispatchVars, regVars, guardVars, arg, suc, history, calls, consumers>>

\* ofs_ << s, first piece of the line
AppendLine_Write1(t) ==
    /\ pc[t] = "AppendLine_write1"
    /\ setFile(arg[t], [fileOf(arg[t]) EXCEPT
                           !.ofs_ = Append(@, <<arg[t].line, 1>>)])
    /\ pc' = [pc EXCEPT ![t] = "AppendLine_write2"]
    /\ UNCHANGED <<dispatchVars, regVars, guardVars, arg, suc, history, calls, consumers>>

\* ofs_ << s, rest of the line
AppendLine_Write2(t) ==
    /\ pc[t] = "AppendLine_write2"
    /\ setFile(arg[t], [fileOf(arg[t]) EXCEPT
                           !.ofs_ = Append(@, <<arg[t].line, 2>>)])
    /\ pc' = [pc EXCEPT ![t] = "AppendLine_return"]
    /\ UNCHANGED <<dispatchVars, regVars, guardVars, arg, suc, history, calls, consumers>>

AppendLine_Return(t) ==
    /\ pc[t] = "AppendLine_return"
    /\ setFile(arg[t], [fileOf(arg[t]) EXCEPT !.mutex_ = 0])
    /\ history' = history (+) SetToBag({Returned("AppendLine_Locked", streamOf(arg[t]),
                              arg[t].line)})
    /\ pc' = [pc EXCEPT ![t] = "idle"]
    /\ UNCHANGED <<dispatchVars, regVars, guardVars, arg, suc, calls, consumers>>

NextStreams ==
    \E t \in Threads :
        \/ \E id \in StreamIds : GetRefFile_Begin(t, id[1], id[2])
        \/ GetRefFile_Lock(t)
        \/ GetRefFile_Emplace(t)
        \/ GetRefFile_Return(t)
        \/ AddFileIndex_Begin(t)
        \/ AppendLine_Lock(t)
        \/ AppendLine_Write1(t)
        \/ AppendLine_Write2(t)
        \/ AppendLine_Return(t)

SpecStreams == InitExists /\ [][NextStreams]_vars
\* the thread works on a stream (it is inside GetRefFile, GetFuncIndexFile or
\* AppendLine_Locked)
OnStream(t) ==
    pc[t] \in { "GetRefFile_lock", "GetRefFile_emplace", "GetRefFile_return",
                "AppendLine_lock", "AppendLine_write1", "AppendLine_write2",
                "AppendLine_return" }

\* thread t is blocked on a mutex that thread u holds
WaitsFor(t, u) ==
    \/ pc[t] = "GetRefFile_lock" /\ pmMutex = u
    \/ pc[t] = "AppendLine_lock" /\ fileOf(arg[t]).mutex_ = u

\* C5: a thread doing resolve-or-create plus append for key A never waits
\* for a lock held by a thread doing the same for a different key B;
\* operations on different keys contend on no common lock.
C5_DistinctKeysNeverWait ==
    \A t, u \in Threads :
        (/\ t # u
         /\ OnStream(t)
         /\ OnStream(u)
         /\ <<arg[t].map, arg[t].key>> # <<arg[u].map, arg[u].key>>)
        => ~WaitsFor(t, u)

\* the threads inside the write of the stream call a works on
Writers(a) ==
    { t \in Threads :
        /\ pc[t] \in {"AppendLine_write1", "AppendLine_write2", "AppendLine_return"}
        /\ arg[t].map = a.map
        /\ arg[t].key = a.key }

\* the calls that name the streams there are
OpenStreams ==
    { [map |-> "ref_files", key |-> k] : k \in DOMAIN ref_files }
        \cup { [map |-> "func_index_files", key |-> k] : k \in DOMAIN func_index_files }
        \cup { [map |-> "file_index_", key |-> "fileIndex"] }

\* the lines whose append to the stream of a has returned
Appended(a) ==
    { l \in 1..MaxCalls :
        Count("AppendLine_Locked", streamOf(a), l) > 0 }

\* the content is whole lines one after the other; only a line whose writer
\* is still inside the write may be incomplete, and it is the last one
WholeLines(a) ==
    LET ofs == fileOf(a).ofs_ IN
    /\ \A i \in 1..Len(ofs) :
          IF i % 2 = 1 THEN ofs[i][2] = 1 ELSE ofs[i] = <<ofs[i - 1][1], 2>>
    /\ Len(ofs) % 2 = 1 =>
          \E t \in Writers(a) :
              pc[t] = "AppendLine_write2" /\ ofs[Len(ofs)] = <<arg[t].line, 1>>

\* C6: at most one thread is inside the write of a given stream, the lines
\* of one key are never interleaved, and the content is a total order of
\* the whole lines appended.
C6_SameKeySerialized ==
    \A a \in OpenStreams :
       \A ofs \in { fileOf(a).ofs_ }, appended \in { Appended(a) } :
          /\ Cardinality(Writers(a)) <= 1
          /\ WholeLines(a)
          /\ \A l \in appended :
                Cardinality({ i \in 1..Len(ofs) : ofs[i][1] = l }) = 2
          /\ \A i \in 1..Len(ofs) :
                \/ ofs[i][1] \in appended
                \/ \E t \in Writers(a) : arg[t].line = ofs[i][1]

\* two threads are at the same stream: one is in the middle of its line, the
\* other waits for the stream's mutex, and a whole line is already there
C6_Witness ==
    \E t, u \in Threads :
        /\ t # u
        /\ pc[t] = "AppendLine_write2"
        /\ pc[u] = "AppendLine_lock"
        /\ arg[t].map = "ref_files"
        /\ arg[u].map = arg[t].map
        /\ arg[u].key = arg[t].key
        /\ Len(fileOf(arg[t]).ofs_) = 3

(***************************************************************************)
(* main(): strings, the file system and the compilation database.          *)
(***************************************************************************)
\* std::string::npos, in the integers of the model checker
npos == 2147483647

\* std::string::find(ch, from): the 0-based position of the first ch at or
\* after from, npos when there is none
RECURSIVE find(_, _, _)
find(s, ch, from) ==
    IF from >= Len(s) THEN npos
    ELSE IF charAt(s, from + 1) = ch THEN from
    ELSE find(s, ch, from + 1)

\* std::string::rfind(ch): the 0-based position of the last ch, npos when
\* there is none (upto is the number of characters still to look at)
RECURSIVE rfind(_, _, _)
rfind(s, ch, upto) ==
    IF upto = 0 THEN npos
    ELSE IF charAt(s, upto) = ch THEN upto - 1
    ELSE rfind(s, ch, upto - 1)

\* std::string::substr(pos, count)
substr2(s, pos, count) ==
    IF pos >= Len(s) THEN ""
    ELSE SubSeq(s, pos + 1, IF count >= Len(s) - pos THEN Len(s) ELSE pos + count)

\* the characters of the paths, in the order of their codes
Alphabet == "-./0123456789:_abcdefghijklmnopqrstuvwxyz"

\* the position of every character of Alphabet in it
charCodes ==
    [c \in { charAt(Alphabet, k) : k \in 1..Len(Alphabet) } |->
        CHOOSE k \in 1..Len(Alphabet) : charAt(Alphabet, k) = c]

charCode(c) == charCodes[c]

\* operator< of std::string: lexicographic by character code
stringLess(a, b) ==
    LET RECURSIVE lessFrom(_)
        lessFrom(i) ==
            IF i > Len(b) THEN FALSE
            ELSE IF i > Len(a) THEN TRUE
            ELSE IF charAt(a, i) = charAt(b, i)
                 THEN lessFrom(i + 1)
                 ELSE charCode(charAt(a, i)) < charCode(charAt(b, i))
    IN lessFrom(1)

\* std::sort of the distinct strings of a set
RECURSIVE sorted(_)
sorted(S) ==
    IF S = {} THEN << >>
    ELSE LET least == CHOOSE x \in S : \A y \in S \ {x} : stringLess(x, y)
         IN <<least>> \o sorted(S \ {least})

\* a search that stops at the first element
lower_bound_First(v, x) == IF v = << >> THEN Len(v) + 1 ELSE 1

\* std::lower_bound(v.cbegin(), v.cend(), x) as a 1-based index: the first
\* element not less than x, Len(v) + 1 standing for cend()
lower_bound(v, x) ==
    IF \E k \in 1..Len(v) : ~stringLess(v[k], x)
    THEN CHOOSE k \in 1..Len(v) :
            /\ ~stringLess(v[k], x)
            /\ \A m \in 1..(k - 1) : stringLess(v[m], x)
    ELSE Len(v) + 1

\* the directory the generator is started in
currentDirectory == "/src"

\* clang::tooling::getAbsolutePath
getAbsolutePath(path) ==
    IF startswith(path, "/") THEN path ELSE currentDirectory \o "/" \o path

\* llvm::sys::path::filename: what follows the last '/'
filenameOf(path) ==
    LET slash == rfind(path, "/", Len(path)) IN
    IF slash = npos THEN path ELSE substr(path, slash + 1)

\* llvm::sys::path::extension: the last '.' of the file name and what follows
extension(path) ==
    LET name == filenameOf(path)
        dot == rfind(name, ".", Len(name))
    IN IF dot = npos \/ name = "." \/ name = ".." THEN "" ELSE substr(name, dot)

\* a Phase 1 loop without the header test
isHeader_Never(filename) == FALSE

\* the header test of the Phase 1 loop
isHeader(filename) == extension(filename) \in { ".h", ".H", ".hh", ".hpp" }

\* the directories of the file system, each with what a recursive walk of it
\* visits, in order
Directories == { "/src/app" }

directoryWalk(dir) ==
    IF dir = "/src/app"
    THEN << "/src/app/.git", "/src/app/main.cc", "/src/app/main.h",
            "/src/app/notes.txt" >>
    ELSE << >>

\* llvm::sys::fs::is_directory
is_directory(path) == canonicalize(path) \in Directories

\* the compilation databases: none could be loaded, a fixed command line
\* given after "--", or a JSON database with entries for some files
Database(kind, files) == [kind |-> kind, files |-> files]

\* CompilationDatabase::getAllFiles: a fixed database names no file
getAllFiles(db) == IF db.kind = "json" THEN db.files ELSE {}

\* CompilationDatabase::getCompileCommands: a fixed database answers for
\* every file, a JSON database for the files it has an entry for
getCompileCommands(db, file) ==
    IF db.kind = "fixed"
    THEN << [Directory |-> ".",
             CommandLine |-> << "clang-tool", "-Iinc", file >>] >>
    ELSE IF db.kind = "json" /\ file \in db.files
    THEN << [Directory |-> "/build",
             CommandLine |-> << "cc", "-c", file, "-o", file \o ".o" >>] >>
    ELSE << >>

(***************************************************************************)
(* main(): the command line.                                               *)
(***************************************************************************)
MaxSources == 2

\* the ProjectInfo a -p value names; ok is false when it has no ':'
parseProjectPath(s) ==
    LET colonPos == find(s, ":", 0)
        secondColonPos == find(s, ":", colonPos + 1)
    IN IF colonPos >= Len(s) THEN [ok |-> FALSE]
       ELSE [ok |-> TRUE,
             info |-> ProjectInfo(substr2(s, 0, colonPos),
                                  substr2(s, colonPos + 1, secondColonPos - colonPos - 1),
                                  IF secondColonPos < Len(s)
                                  THEN substr(s, secondColonPos + 1) ELSE "",
                                  "Normal")]

\* the ProjectInfo a -e value names; ok is false when it has fewer than two ':'
parseExternalProjectPath(s) ==
    LET colonPos == find(s, ":", 0)
        secondColonPos == find(s, ":", colonPos + 1)
    IN IF colonPos >= Len(s) THEN [ok |-> FALSE]
       ELSE IF secondColonPos >= Len(s) THEN [ok |-> FALSE]
       ELSE [ok |-> TRUE,
             info |-> [ProjectInfo(substr2(s, 0, colonPos),
                                   substr2(s, colonPos + 1, secondColonPos - colonPos - 1),
                                   "", "External")
                         EXCEPT !.external_root_url = substr(s, secondColonPos + 1)]]

\* the loop over ProjectPaths: a value that does not parse is reported and
\* skipped, the others are handed to addProject
RECURSIVE addProjectPaths(_, _, _)
addProjectPaths(projs, paths, k) ==
    IF k > Len(paths) THEN projs
    ELSE LET parsed == parseProjectPath(paths[k]) IN
         addProjectPaths(IF parsed.ok THEN addProjectTo(projs, parsed.info) ELSE projs,
                         paths, k + 1)

\* the loop over ExternalProjectPaths
RECURSIVE addExternalProjectPaths(_, _, _)
addExternalProjectPaths(projs, paths, k) ==
    IF k > Len(paths) THEN projs
    ELSE LET parsed == parseExternalProjectPath(paths[k]) IN
         addExternalProjectPaths(
             IF parsed.ok THEN addProjectTo(projs, parsed.info) ELSE projs,
             paths, k + 1)

\* the values of -p, of -e and of -b (or the command after "--")
\* (among them a -p value without ':' and a -e value with one ':' only, each
\* followed by a well-formed one)
ProjectPathsChoices ==
    { << >>, << "app:/src/app:r1" >>, << "base:/src", "app:/src/app/" >>,
      << "app", "app:/src/app" >> }

ExternalProjectPathsChoices ==
    { << >>, << "ext:/src/ext", "ext:/src/ext:url" >> }

CompilationsChoices ==
    { Database("none", {}), Database("fixed", {}), Database("json", {}),
      Database("json", { "/src/app/main.cc", "/src/ext/e.cc" }) }

\* the positional arguments: files, a file relative to the current
\* directory, "-" and a directory
SourceCandidates ==
    { "/src/app/main.cc", "/src/app/main.h", "/src/app/doc.qdoc", "lib.cc",
      "/src/ext/e.cc", "-", "/src/app/" }

RECURSIVE SeqsUpTo(_, _)
SeqsUpTo(S, n) ==
    IF n = 0 THEN { << >> }
    ELSE LET shorter == SeqsUpTo(S, n - 1) IN
         shorter \cup { Append(q, x) : q \in { r \in shorter : Len(r) = n - 1 }, x \in S }

CommandLines ==
    [ProjectPaths : ProjectPathsChoices,
     ExternalProjectPaths : ExternalProjectPathsChoices,
     SourcePaths : SeqsUpTo(SourceCandidates, MaxSources),
     ProcessAllSources : BOOLEAN,
     Compilations : CompilationsChoices]

\* thread_pool declared before projectManager
Locals_PoolFirst == << "thread_pool", "projectManager" >>

\* the two objects of main() the Jobs use, in the order of their
\* declarations; they are destroyed in the reverse order
Locals == << "projectManager", "thread_pool" >>

\* main() has constructed projectManager and thread_pool
InitDispatch ==
    /\ projects = ConstructedProjects
    /\ addResult = TRUE
    /\ InitIdle
    /\ cl \in CommandLines
    /\ main = [pc |-> "main_projects", exitCode |-> "running",
               IsProcessingAllDirectory |-> FALSE, AllFiles |-> << >>,
               Sources |-> << >>, Progress |-> 0, NotInDB |-> << >>,
               i |-> 1, j |-> 1, step |-> "admit", file |-> "",
               compileCommandsForFile |-> << >>, locals |-> Locals]
    /\ pool = [queue |-> << >>, running |-> EmptyBag]
    /\ out = [pages |-> {}, otherIndex |-> << >>]
    /\ log = [submitted |-> << >>, classified |-> << >>, delayed |-> << >>,
              finished |-> EmptyBag]

\* the two loops over the -p and -e values
RegisterProjects ==
    /\ main.pc = "main_projects"
    /\ projects' = addExternalProjectPaths(
                       addProjectPaths(projects, cl.ProjectPaths, 1),
                       cl.ExternalProjectPaths, 1)
    /\ main' = [main EXCEPT !.pc = "main_database"]
    /\ UNCHANGED <<addResult, guardVars, threadVars, streamVars, cl, pool, out, log>>

\* a return statement that reports success
exitFailure_ReturnsZero == [main EXCEPT !.pc = "exited", !.exitCode = "0"]

\* exit through one of the "return EXIT_FAILURE" statements
exitFailure == [main EXCEPT !.pc = "exited", !.exitCode = "EXIT_FAILURE"]

\* no compilation database: report it and return EXIT_FAILURE
LoadDatabase ==
    /\ main.pc = "main_database"
    /\ main' = IF cl.Compilations.kind = "none"
               THEN exitFailure
               ELSE [main EXCEPT !.pc = "main_sources"]
    /\ UNCHANGED <<regVars, guardVars, threadVars, streamVars, cl, pool, out, log>>

\* DirName without its trailing slashes
RECURSIVE popTrailingSlashes(_)
popTrailingSlashes(DirName) ==
    IF endswith(DirName, "/")
    THEN popTrailingSlashes(SubSeq(DirName, 1, Len(DirName) - 1))
    ELSE DirName

\* the walk of the directory without the entries whose name starts with '.'
DirContents(DirName) ==
    LET walk == directoryWalk(DirName)
        RECURSIVE keep(_)
        keep(k) ==
            IF k > Len(walk) THEN << >>
            ELSE IF startswith(filenameOf(walk[k]), ".") THEN keep(k + 1)
            ELSE <<walk[k]>> \o keep(k + 1)
    IN keep(1)

\* the choice of Sources, the whole-directory mode and the checks after it
SelectSources ==
    /\ main.pc = "main_sources"
    /\ LET AllFiles == sorted(getAllFiles(cl.Compilations))
           all == cl.SourcePaths = << >> /\ cl.ProcessAllSources
           both == ~all /\ cl.ProcessAllSources
           directory == /\ ~cl.ProcessAllSources
                        /\ Len(cl.SourcePaths) = 1
                        /\ is_directory(cl.SourcePaths[1])
           DirName == popTrailingSlashes(cl.SourcePaths[1])
           Sources == IF all THEN AllFiles
                      ELSE IF directory THEN DirContents(DirName)
                      ELSE cl.SourcePaths
       IN /\ projects' =
                IF directory /\ cl.ProjectPaths = << >>
                THEN addProjectTo(projects,
                         ProjectInfo(filenameOf(DirName), DirName, "", "Normal"))
                ELSE projects
          /\ main' =
                IF both THEN exitFailure
                ELSE IF Sources = << >> THEN exitFailure
                ELSE IF cl.ProjectPaths = << >> /\ ~directory THEN exitFailure
                ELSE [main EXCEPT !.pc = "main_dispatch",
                                  !.AllFiles = AllFiles,
                                  !.Sources = Sources,
                                  !.IsProcessingAllDirectory = directory]
    /\ UNCHANGED <<addResult, guardVars, threadVars, streamVars, cl, pool, out, log>>

(***************************************************************************)
(* main(): the two loops.  A Job is the closure handed to                  *)
(* thread_pool.Schedule: the arguments of its proceedCommand call.         *)
(***************************************************************************)
Job(command, dir, file, tp) ==
    [command |-> command, dir |-> dir, file |-> file, tp |-> tp]

\* a Phase 2 loop that does not wait for the end of the Phase 1 loop
Phase1Done_Early == TRUE

\* the Phase 1 loop has gone through all of Sources
Phase1Done == main.i > Len(main.Sources)

\* what main() did with an input file in the Phase 1 loop
Classified(it, outcome) == [it |-> it, outcome |-> outcome]

\* a Phase 1 loop that keeps a Delayed file counted
afterDelay_Kept(Progress) == Progress

\* Progress-- for a Delayed file, which Progress++ counted at the top of the
\* iteration
afterDelay(Progress) == Progress - 1

\* one iteration of the Phase 1 loop, for Sources[i]: the Progress written
\* with a submitted Job is the one its "[n%] Processing" line reports
Phase1Step ==
    /\ main.pc = "main_dispatch"
    /\ main.i <= Len(main.Sources)
    /\ LET it == main.Sources[main.i]
           file == getAbsolutePath(it)
           filename == canonicalize(file)
           project == projectForFile(filename)
           compileCommandsForFile == getCompileCommands(cl.Compilations, file)
           tp == IF main.IsProcessingAllDirectory
                 THEN "ProcessFullDirectory" ELSE "InDatabase"
       IN IF it = "" \/ it = "-"
          THEN /\ main' = [main EXCEPT !.i = @ + 1, !.Progress = @ + 1]
               /\ log' = [log EXCEPT !.classified =
                             Append(@, Classified(it, "skipped: no file name"))]
               /\ pool' = pool
          ELSE IF project = 0
          THEN /\ main' = [main EXCEPT !.i = @ + 1, !.Progress = @ + 1]
               /\ log' = [log EXCEPT !.classified =
                             Append(@, Classified(it, "skipped: no project"))]
               /\ pool' = pool
          ELSE IF ~shouldProcess0(project)
          THEN /\ main' = [main EXCEPT !.i = @ + 1, !.Progress = @ + 1]
               /\ log' = [log EXCEPT !.classified =
                             Append(@, Classified(it, "skipped: shouldProcess0"))]
               /\ pool' = pool
          ELSE IF compileCommandsForFile # << >> /\ ~isHeader(filename)
          THEN /\ main' = [main EXCEPT !.i = @ + 1, !.Progress = @ + 1]
               /\ pool' = [pool EXCEPT !.queue =
                              Append(@, Job(compileCommandsForFile[1].CommandLine,
                                            compileCommandsForFile[1].Directory,
                                            file, tp))]
               /\ log' = [log EXCEPT
                             !.submitted =
                                Append(@, [job |-> Job(compileCommandsForFile[1].CommandLine,
                                                       compileCommandsForFile[1].Directory,
                                                       file, tp),
                                           phase |-> 1,
                                           Progress |-> main.Progress + 1]),
                             !.classified = Append(@, Classified(it, "submitted"))]
          ELSE /\ main' = [main EXCEPT !.i = @ + 1,
                                       !.Progress = afterDelay(@ + 1),
                                       !.NotInDB = Append(@, filename)]
               /\ log' = [log EXCEPT !.classified =
                             Append(@, Classified(it, "delayed"))]
               /\ pool' = pool
    /\ UNCHANGED <<regVars, guardVars, threadVars, streamVars, cl, out>>

\* shouldProcess as one step of the calling thread: the value it returns
shouldProcess(filename, p) ==
    /\ shouldProcess0(p)
    /\ outputPath(projects[p], filename) \notin exists_files_

\* an insertion that drops what the set held
addFile_Locked_Replaces(filename, p) ==
    IF shouldProcess0(p)
    THEN { outputPath(projects[p], filename) }
    ELSE exists_files_

\* shouldProcess as one step of the calling thread: exists_files_ after it
addFile_Locked(filename, p) ==
    IF shouldProcess0(p)
    THEN exists_files_ \cup { outputPath(projects[p], filename) }
    ELSE exists_files_

\* what main() did with a Delayed file in the Phase 2 loop
Delayed(it, outcome, found, page) ==
    [it |-> it, outcome |-> outcome, found |-> found, page |-> page]

\* the Phase 2 loop is at NotInDB[j]
InPhase2(step) ==
    /\ main.pc = "main_dispatch"
    /\ Phase1Done
    /\ main.j <= Len(main.NotInDB)
    /\ main.step = step

\* Phase 2, start of an iteration: the ownership check with shouldProcess
Phase2Admit ==
    /\ InPhase2("admit")
    /\ LET it == main.NotInDB[main.j]
           file == getAbsolutePath(it)
           project == projectForFile(file)
       IN IF project = 0
          THEN /\ main' = [main EXCEPT !.j = @ + 1, !.Progress = @ + 1]
               /\ log' = [log EXCEPT !.delayed =
                             Append(@, Delayed(it, "skipped: no project", FALSE, FALSE))]
               /\ exists_files_' = exists_files_
          ELSE IF ~shouldProcess(file, project)
          THEN /\ main' = [main EXCEPT !.j = @ + 1, !.Progress = @ + 1]
               /\ log' = [log EXCEPT !.delayed =
                             Append(@, Delayed(it, "skipped: shouldProcess", FALSE, FALSE))]
               /\ exists_files_' = addFile_Locked(file, project)
          ELSE /\ main' = [main EXCEPT !.Progress = @ + 1, !.step = "recover",
                                       !.file = file]
               /\ log' = log
               /\ exists_files_' = addFile_Locked(file, project)
    /\ UNCHANGED <<regVars, processed_, processedMutex, pmMutex, threadVars,
                   streamVars, cl, pool, out>>

\* std::replace(command.begin(), command.end(), old, new)
replace(command, old, new) ==
    [k \in 1..Len(command) |-> IF command[k] = old THEN new ELSE command[k]]

\* the command of a Delayed file: the borrowed one with the file name put
\* in, and for a .qdoc file the language flag and the header to include
recoveredCommand(CommandLine, fileForCommands, it, file) ==
    LET command == replace(CommandLine, fileForCommands, it) IN
    IF endswith(file, ".qdoc")
    THEN << command[1], "-xc++" >> \o SubSeq(command, 2, Len(command))
            \o << "-include", substr2(file, 0, Len(file) - 5) \o ".h" >>
    ELSE command

\* the commands looked up for the file itself
directCommands == getCompileCommands(cl.Compilations, main.file)

\* a search that falls back to the last element
lowerIndex_Last ==
    LET lower == lower_bound(main.AllFiles, main.file) IN
    IF lower = Len(main.AllFiles) + 1 THEN Len(main.AllFiles) ELSE lower

\* the element of AllFiles the command is borrowed from: the lower bound,
\* or the first element when the lower bound is cend()
lowerIndex ==
    LET lower == lower_bound(main.AllFiles, main.file) IN
    IF lower = Len(main.AllFiles) + 1 THEN 1 ELSE lower

\* a Phase 2 loop that passes the status of the Phase 1 loop
phase2Type_InDatabase ==
    IF main.IsProcessingAllDirectory THEN "ProcessFullDirectory" ELSE "InDatabase"

\* the DatabaseType of a Job of the Phase 2 loop
phase2Type ==
    IF main.IsProcessingAllDirectory THEN "ProcessFullDirectory" ELSE "NotInDatabase"

\* what a std::string can hold after std::move took its value: the standard
\* leaves it unspecified, the libraries leave it empty
movedFrom(s) == { "", s }

\* Phase 2, the command: the file's own, or the one of its neighbour in
\* AllFiles; with a command the Job is scheduled, and the closure takes the
\* value of file with it
Phase2Recover ==
    /\ InPhase2("recover")
    /\ directCommands # << >> \/ main.AllFiles # << >>
    /\ LET it == main.NotInDB[main.j]
           fileForCommands == IF directCommands # << >> THEN main.file
                              ELSE main.AllFiles[lowerIndex]
           compileCommandsForFile ==
               IF directCommands # << >> THEN directCommands
               ELSE getCompileCommands(cl.Compilations, main.AllFiles[lowerIndex])
           tp == phase2Type
       IN /\ IF compileCommandsForFile # << >>
             THEN /\ \E left \in movedFrom(main.file) :
                        main' = [main EXCEPT !.step = "fallback", !.file = left,
                                    !.compileCommandsForFile = compileCommandsForFile]
                  /\ pool' = [pool EXCEPT !.queue =
                                Append(@, Job(recoveredCommand(
                                                  compileCommandsForFile[1].CommandLine,
                                                  fileForCommands, it, main.file),
                                              compileCommandsForFile[1].Directory,
                                              main.file, tp))]
                  /\ log' = [log EXCEPT !.submitted =
                                Append(@, [job |-> Job(recoveredCommand(
                                                           compileCommandsForFile[1].CommandLine,
                                                           fileForCommands, it, main.file),
                                                       compileCommandsForFile[1].Directory,
                                                       main.file, tp),
                                           phase |-> 2,
                                           Progress |-> main.Progress])]
             ELSE /\ main' = [main EXCEPT !.step = "fallback",
                                     !.compileCommandsForFile = compileCommandsForFile]
                  /\ pool' = pool
                  /\ log' = log
    /\ UNCHANGED <<regVars, guardVars, threadVars, streamVars, cl, out>>

\* Phase 2, the command, with AllFiles empty: lower is cend() and stays
\* cend(), and *lower reads past the end of an empty vector.  Here the read
\* faults and the process dies.
Phase2Recover_EndIteratorFaults ==
    /\ InPhase2("recover")
    /\ directCommands = << >> /\ main.AllFiles = << >>
    /\ main' = [main EXCEPT !.pc = "crashed", !.exitCode = "SIGSEGV"]
    /\ UNCHANGED <<regVars, guardVars, threadVars, streamVars, cl, pool, out, log>>

\* The same read, yielding some string: the database, which has no entry at
\* all, has no command for it.
Phase2Recover_EndIteratorReadsGarbage ==
    /\ InPhase2("recover")
    /\ directCommands = << >> /\ main.AllFiles = << >>
    /\ main' = [main EXCEPT !.step = "fallback", !.compileCommandsForFile = << >>]
    /\ UNCHANGED <<regVars, guardVars, threadVars, streamVars, cl, pool, out, log>>

\* the local "bool success = false", which nothing assigns to
success == FALSE

\* llvm::MemoryBuffer::getFile succeeds on the files there are
FilesOnDisk ==
    { "/src/app/main.cc", "/src/app/main.h", "/src/app/notes.txt",
      "/src/app/doc.qdoc",
      "/src/lib.cc", "/src/ext/e.cc", "/tmp/x.cc" }

\* the page Generator::generate writes for the fallback
Page(projectinfo, file) ==
    [fn |-> projectinfo.name \o "/" \o substr(file, Len(projectinfo.source_path)),
     footer |-> << "Generated on", "from project", projectinfo.name,
                   projectinfo.revision >>,
     warning |-> "Warning: This file is not a C or C++ file. It does not have highlighting."]

\* Phase 2, end of an iteration: the fallback page
Phase2Fallback ==
    /\ InPhase2("fallback")
    /\ LET it == main.NotInDB[main.j]
           file == main.file
           found == main.compileCommandsForFile # << >>
           projectinfo == projectForFile(file)
           next == [main EXCEPT !.j = @ + 1, !.step = "admit"]
       IN /\ main' = next
          /\ IF ~(~success /\ ~main.IsProcessingAllDirectory)
             THEN /\ exists_files_' = exists_files_
                  /\ out' = out
                  /\ log' = [log EXCEPT !.delayed =
                                Append(@, Delayed(it, "no fallback", found, FALSE))]
             ELSE IF projectinfo = 0
             THEN /\ exists_files_' = exists_files_
                  /\ out' = out
                  /\ log' = [log EXCEPT !.delayed =
                                Append(@, Delayed(it, "fallback: no project", found, FALSE))]
             ELSE IF ~shouldProcess(file, projectinfo)
             THEN /\ exists_files_' = addFile_Locked(file, projectinfo)
                  /\ out' = out
                  /\ log' = [log EXCEPT !.delayed =
                                Append(@, Delayed(it, "fallback: shouldProcess", found, FALSE))]
             ELSE IF file \notin FilesOnDisk
             THEN /\ exists_files_' = addFile_Locked(file, projectinfo)
                  /\ out' = out
                  /\ log' = [log EXCEPT !.delayed =
                                Append(@, Delayed(it, "fallback: unreadable", found, FALSE))]
             ELSE /\ exists_files_' = addFile_Locked(file, projectinfo)
                  /\ out' = [out EXCEPT
                                !.pages = @ \cup { Page(projects[projectinfo], file) },
                                !.otherIndex = Append(@, Page(projects[projectinfo], file).fn)]
                  /\ log' = [log EXCEPT !.delayed =
                                Append(@, Delayed(it, "fallback: page", found, TRUE))]
    /\ UNCHANGED <<regVars, processed_, processedMutex, pmMutex, threadVars,
                   streamVars, cl, pool>>

\* the end of main(): both loops are done
MainReturn ==
    /\ main.pc = "main_dispatch"
    /\ Phase1Done
    /\ main.j > Len(main.NotInDB)
    /\ main' = [main EXCEPT !.pc = "main_end", !.exitCode = "0"]
    /\ UNCHANGED <<regVars, guardVars, threadVars, streamVars, cl, pool, out, log>>

(***************************************************************************)
(* The workers of the pool: each takes the Job at the head of the queue    *)
(* and runs proceedCommand, in which BrowserAction::CreateASTConsumer asks *)
(* the Dedup Guard and the Unit Processor succeeds or fails.               *)
(***************************************************************************)
PoolAlive ==
    /\ main.pc \in { "main_dispatch", "main_end" }
    /\ \E k \in DOMAIN main.locals : main.locals[k] = "thread_pool"

WorkerTakesJob ==
    /\ PoolAlive
    /\ pool.queue # << >>
    /\ BagCardinality(pool.running) < NThreads
    /\ pool' = [pool EXCEPT !.queue = Tail(@),
                            !.running = @ (+) SetToBag({Head(pool.queue)})]
    /\ UNCHANGED <<regVars, guardVars, threadVars, streamVars, cl, main, out, log>>

\* what became of a Job
Finished(job, consumer, result) ==
    [job |-> job, consumer |-> consumer, result |-> result]

\* the arguments of the command that name an input: not the program, not an
\* option, not the value of -o or -include
RECURSIVE inputs(_, _)
inputs(command, k) ==
    IF k > Len(command) THEN << >>
    ELSE IF startswith(command[k], "-") \/ command[k - 1] \in { "-o", "-include" }
    THEN inputs(command, k + 1)
    ELSE << command[k] >> \o inputs(command, k + 1)

\* a walk that makes a relative argument absolute without looking at the disk
adjusted_Always(A, Directory) ==
    IF A = "" \/ startswith(A, "/") THEN A ELSE Directory \o "/" \o A

\* proceedCommand makes an argument that names an existing file relative to
\* Directory absolute
adjusted(A, Directory) ==
    IF A = "" \/ startswith(A, "/") THEN A
    ELSE IF getAbsolutePath(Directory \o "/" \o A) \in FilesOnDisk
    THEN Directory \o "/" \o A
    ELSE A

\* the InFile the tool hands to CreateASTConsumer for the Job
InFile(job) == adjusted(inputs(job.command, 2)[1], job.dir)

\* the Job's translation unit was processed already: no consumer, the
\* invocation fails
proceedCommand_Skipped(job) ==
    /\ PoolAlive
    /\ BagIn(job, pool.running)
    /\ InFile(job) \in processed_
    /\ pool' = [pool EXCEPT !.running = @ (-) SetToBag({job})]
    /\ log' = [log EXCEPT !.finished = @ (+) SetToBag({Finished(job, FALSE, FALSE)})]
    /\ UNCHANGED <<regVars, guardVars, threadVars, streamVars, cl, main, out>>

\* the Dedup Guard admits the translation unit, the Unit Processor runs and
\* returns result
proceedCommand_Run(job, result) ==
    /\ PoolAlive
    /\ BagIn(job, pool.running)
    /\ InFile(job) \notin processed_
    /\ processed_' = processed_ \cup { InFile(job) }
    /\ pool' = [pool EXCEPT !.running = @ (-) SetToBag({job})]
    /\ log' = [log EXCEPT !.finished = @ (+) SetToBag({Finished(job, TRUE, result)})]
    /\ UNCHANGED <<regVars, processedMutex, exists_files_, pmMutex, threadVars,
                   streamVars, cl, main, out>>

\* ~ThreadPool returns when the queue is empty and no worker runs a Job
poolDrained == pool.queue = << >> /\ pool.running = EmptyBag

\* after the return statement: the destructor of the local declared last
\* among those left; the one of thread_pool waits for the Jobs
DestroyLocal ==
    /\ main.pc = "main_end"
    /\ main.locals # << >>
    /\ main.locals[Len(main.locals)] = "thread_pool" => poolDrained
    /\ main' = [main EXCEPT !.locals = SubSeq(@, 1, Len(@) - 1)]
    /\ UNCHANGED <<regVars, guardVars, threadVars, streamVars, cl, pool, out, log>>

\* the process ends with the exit code main() returned
ProcessExit ==
    /\ main.pc = "main_end"
    /\ main.locals = << >>
    /\ main' = [main EXCEPT !.pc = "main_exited"]
    /\ UNCHANGED <<regVars, guardVars, threadVars, streamVars, cl, pool, out, log>>

NextDispatch ==
    \/ RegisterProjects
    \/ LoadDatabase
    \/ SelectSources
    \/ Phase1Step
    \/ Phase2Admit
    \/ Phase2Recover
    \/ Phase2Recover_EndIteratorFaults
    \/ Phase2Recover_EndIteratorReadsGarbage
    \/ Phase2Fallback
    \/ MainReturn
    \/ DestroyLocal
    \/ ProcessExit
    \/ WorkerTakesJob
    \/ \E job \in BagToSet(pool.running) : proceedCommand_Skipped(job)
    \/ \E job \in BagToSet(pool.running), result \in BOOLEAN :
          proceedCommand_Run(job, result)

SpecDispatch == InitDispatch /\ [][NextDispatch]_vars

(***************************************************************************)
(* Properties of the Dispatcher.                                           *)
(***************************************************************************)
\* the loops have been entered
Dispatching == main.pc \in { "main_dispatch", "main_end", "main_exited", "crashed" }

\* the canonical absolute path of an input file
filenameFor(it) == canonicalize(getAbsolutePath(it))

\* the phases of the submissions, in the order of the calls to Schedule
Phases == [k \in DOMAIN log.submitted |-> log.submitted[k].phase]

\* C7: two-phase ordering: every Job submitted from the Phase 1 loop is
\* submitted before any Job submitted from the Phase 2 loop; no Phase 1
\* submission follows a Phase 2 submission.
C7_TwoPhaseOrdering ==
    \A a, b \in DOMAIN Phases : a < b => ~(Phases[a] = 2 /\ Phases[b] = 1)

\* a finished run that submitted from both loops
C7_Witness ==
    /\ main.pc = "main_end"
    /\ \E a, b \in DOMAIN Phases : Phases[a] = 1 /\ Phases[b] = 2

\* the unannotated page of file and its entry in otherIndex are there
FallbackWritten(file) ==
    LET fn == Page(projects[projectForFile(file)], file).fn IN
    /\ \E page \in out.pages : page = Page(projects[projectForFile(file)], file)
    /\ \E k \in DOMAIN out.otherIndex : out.otherIndex[k] = fn

\* C8: fallback: for a Delayed file owned by a non-External project, when
\* recovery finds no compile command at all and the run is not in
\* whole-directory mode, the unannotated page with the fixed disclaimer is
\* written and the file's entry is appended to otherIndex.
C8_FallbackPageWritten ==
    \A k \in DOMAIN log.delayed :
        LET file == log.delayed[k].it IN
        ( /\ shouldProcess0(projectForFile(file))
          /\ log.delayed[k].outcome \notin { "skipped: no project",
                                            "skipped: shouldProcess" }
          /\ ~log.delayed[k].found
          /\ ~main.IsProcessingAllDirectory
          /\ file \in FilesOnDisk )
        => FallbackWritten(file)

\* C9: batch isolation: no per-file failure ends the Phase 1 loop, the
\* Phase 2 loop or the process: the process does not die in the loops, and
\* at the end of main() every input file has been classified and every
\* Delayed file has been handled.
C9_BatchIsolation ==
    /\ main.pc # "crashed"
    /\ main.pc = "main_end" =>
          /\ Len(log.classified) = Len(main.Sources)
          /\ Len(log.delayed) = Len(main.NotInDB)

\* the input files whose longest-prefix owning project is External
ExternalInputs ==
    { f \in { filenameFor(main.Sources[k]) : k \in DOMAIN main.Sources } :
        LET p == projectForFile(f)
        IN p # 0 /\ projects[p].type = "External" }

\* C10: External projects never produce output: for every input file whose
\* longest-prefix owning project is External no Job is submitted, the file
\* is not appended to the Delayed list, no fallback page is written and no
\* entry is inserted into the Existence Guard Set for it.
C10_ExternalNeverProducesOutput ==
    Dispatching =>
        \A f \in ExternalInputs :
            /\ \A k \in DOMAIN log.submitted :
                   filenameFor(log.submitted[k].job.file) # f
            /\ \A k \in DOMAIN main.NotInDB : main.NotInDB[k] # f
            /\ \A page \in out.pages :
                   page.fn # Page(projects[projectForFile(f)], f).fn
            /\ outputPath(projects[projectForFile(f)], f) \notin exists_files_

\* a finished run over a file of an External project, which a Normal
\* project covers with a shorter prefix, and a file that was submitted
C10_Witness ==
    /\ main.pc = "main_end"
    /\ "/src/ext/e.cc" \in ExternalInputs
    /\ \E p \in DOMAIN projects :
          /\ projects[p].type = "Normal"
          /\ IsPrefix(projects[p].source_path, "/src/ext/e.cc")
    /\ \E k \in DOMAIN log.classified :
          log.classified[k] = Classified("/src/ext/e.cc", "skipped: shouldProcess0")
    /\ log.submitted # << >>
\* projectManager has been destroyed
ProjectManagerDestroyed ==
    /\ main.pc \in { "main_end", "main_exited" }
    /\ \A k \in DOMAIN main.locals : main.locals[k] # "projectManager"

\* every Job handed to Schedule has finished
AllJobsFinished ==
    /\ poolDrained
    /\ BagCardinality(log.finished) = Len(log.submitted)

\* C11: pool drain: every Job submitted to the pool has finished before
\* projectManager is destroyed and before the process exits through the
\* normal end of main.
C11_PoolDrainedBeforeExit ==
    (ProjectManagerDestroyed \/ main.pc = "main_exited") => AllJobsFinished

\* a run that submitted two Jobs or more has exited through the end of
\* main with all of them finished
C11_Witness ==
    /\ main.pc = "main_exited"
    /\ main.exitCode = "0"
    /\ Len(log.submitted) >= 2
    /\ BagCardinality(log.finished) = Len(log.submitted)
\* main() is past the choice of Sources and the checks after it
PastSetup ==
    main.pc \in { "exited", "main_dispatch", "main_end", "main_exited", "crashed" }

\* the command line asks for whole-directory mode
DirectoryGiven ==
    /\ ~cl.ProcessAllSources
    /\ Len(cl.SourcePaths) = 1
    /\ is_directory(cl.SourcePaths[1])

\* the three cases of a run that cannot start
NoDatabase == cl.Compilations.kind = "none"
SourcesAndAll == cl.SourcePaths # << >> /\ cl.ProcessAllSources
NoProjectNoDirectory == cl.ProjectPaths = << >> /\ ~DirectoryGiven

\* C12: exit code: when no compilation database can be loaded, when both
\* explicit sources and the process-all flag are given, or when neither a
\* project spec nor whole-directory mode is given, main returns a non-zero
\* exit code and has submitted no Job.
C12_ExitCode ==
    (main.pc # "none" /\ (NoDatabase \/ SourcesAndAll \/ NoProjectNoDirectory)) =>
        /\ log.submitted = << >>
        /\ PastSetup => (main.pc = "exited" /\ main.exitCode = "EXIT_FAILURE")

\* a run with a database and sources but without -p and without a
\* directory has returned EXIT_FAILURE
C12_Witness ==
    /\ main.pc = "exited"
    /\ main.exitCode = "EXIT_FAILURE"
    /\ ~NoDatabase /\ ~SourcesAndAll /\ NoProjectNoDirectory
    /\ cl.SourcePaths # << >>
    /\ cl.ExternalProjectPaths # << >>
\* the command line has a -p value without ':' or a -e value with fewer
\* than two ':'
BadProjectSpec ==
    \/ \E k \in DOMAIN cl.ProjectPaths : ~parseProjectPath(cl.ProjectPaths[k]).ok
    \/ \E k \in DOMAIN cl.ExternalProjectPaths :
          ~parseExternalProjectPath(cl.ExternalProjectPaths[k]).ok

\* C13: configuration errors are fatal: when a project spec on the command
\* line has bad syntax, the process exits non-zero before any Job runs.
C13_BadProjectSpecIsFatal ==
    (main.pc # "none" /\ BadProjectSpec) =>
        /\ pool.running = EmptyBag
        /\ log.finished = EmptyBag
        /\ PastSetup => (main.pc = "exited" /\ main.exitCode = "EXIT_FAILURE")
\* the Phase 2 submissions for files without a database entry of their own
\* for which the known-file list has an entry that is not less
Recovered ==
    { k \in DOMAIN log.submitted :
        /\ log.submitted[k].phase = 2
        /\ getCompileCommands(cl.Compilations, log.submitted[k].job.file) = << >>
        /\ \E m \in DOMAIN main.AllFiles :
              ~stringLess(main.AllFiles[m], log.submitted[k].job.file) }

\* the first entry of the known-file list that is not less than target
firstNotLess(target) ==
    main.AllFiles[CHOOSE m \in DOMAIN main.AllFiles :
                     /\ ~stringLess(main.AllFiles[m], target)
                     /\ \A n \in 1..(m - 1) : stringLess(main.AllFiles[n], target)]

\* command is borrowed with every token equal to entry replaced by target
\* and nothing else changed
Substituted(command, borrowed, entry, target) ==
    /\ Len(command) = Len(borrowed)
    /\ \A n \in DOMAIN borrowed :
          command[n] = IF borrowed[n] = entry THEN target ELSE borrowed[n]

\* the command of the database entry for file
commandOf(file) == getCompileCommands(cl.Compilations, file)[1].CommandLine

C15_Registration ==
    /\ [](\A i \in DOMAIN projects :
             /\ projects[i].source_path # ""
             /\ endswith(projects[i].source_path, "/"))
    /\ [][ \A info \in ProjectCandidates :
             AddProject(info) =>
                IF info.source_path = "" \/ canonicalize(info.source_path) = ""
                THEN ~addResult' /\ projects' = projects
                ELSE /\ addResult'
                     /\ Len(projects') = Len(projects) + 1
                     /\ SubSeq(projects', 1, Len(projects)) = projects
                     /\ projects'[Len(projects')].name = info.name
                     /\ projects'[Len(projects')].type = info.type ]_vars

\* the same project was registered twice, a path without a trailing slash
\* was registered, and the last call, with an empty path, was refused
C15_Witness ==
    /\ ~addResult
    /\ \E i, j \in DOMAIN projects :
          /\ i < j
          /\ projects[i] = projects[j]
          /\ projects[i].name = "base"
          /\ projects[i].source_path = "/src/"
\* the input files the Phase 1 loop has gone through
Handled == SubSeq(main.Sources, 1, main.i - 1)

\* the input file has a name and a project that is not External
Admitted(it) ==
    /\ it \notin { "", "-" }
    /\ \E project \in { projectForFile(filenameFor(it)) } :
          project # 0 /\ projects[project].type # "External"

\* the input file has a database entry of its own and no header extension
DirectNonHeader(it) ==
    /\ getCompileCommands(cl.Compilations, getAbsolutePath(it)) # << >>
    /\ extension(filenameFor(it)) \notin { ".h", ".H", ".hh", ".hpp" }

\* the Jobs submitted from the Phase 1 loop, in order
Phase1Jobs ==
    LET InPhase1(e) == e.phase = 1
        sub == SelectSeq(log.submitted, InPhase1)
    IN [k \in DOMAIN sub |-> sub[k].job]

\* the Jobs are those of the files of its, in order, with the status of the
\* run mode
JobsFor(jobs, its) ==
    /\ Len(jobs) = Len(its)
    /\ \A k \in DOMAIN its :
          /\ jobs[k].file = getAbsolutePath(its[k])
          /\ jobs[k].tp = IF main.IsProcessingAllDirectory
                          THEN "ProcessFullDirectory" ELSE "InDatabase"

\* C16 as stated: Phase 1 classification: every input file with a direct
\* database entry and no header extension is submitted in Phase 1, with
\* status ProcessFullDirectory in whole-directory mode and InDatabase
\* otherwise; every other input file is appended to the Delayed list.
C16_Phase1Classification ==
    Dispatching =>
        /\ JobsFor(Phase1Jobs, SelectSeq(Handled, DirectNonHeader))
        /\ main.NotInDB =
              LET Other(it) == ~DirectNonHeader(it)
                  rest == SelectSeq(Handled, Other)
              IN [k \in DOMAIN rest |-> filenameFor(rest[k])]

\* C16 as amended: the same for the input files that pass the ownership
\* check of the loop: the files with a name other than "-" whose owning
\* project exists and is not External; the others are neither submitted nor
\* appended to the Delayed list.
C16_Phase1ClassificationOfAdmitted ==
    Dispatching =>
        /\ JobsFor(Phase1Jobs,
                   LET Submit(it) == Admitted(it) /\ DirectNonHeader(it)
                   IN SelectSeq(Handled, Submit))
        /\ main.NotInDB =
              LET Delay(it) == Admitted(it) /\ ~DirectNonHeader(it)
                  rest == SelectSeq(Handled, Delay)
              IN [k \in DOMAIN rest |-> filenameFor(rest[k])]

\* Phase 1 is over in a run on a source file and a header which both have
\* a database entry of their own: one was submitted, one delayed
C16_Witness ==
    /\ main.pc = "main_dispatch"
    /\ Phase1Done
    /\ main.Sources = << "/src/app/main.cc", "/src/app/main.h" >>
    /\ getCompileCommands(cl.Compilations, "/src/app/main.h") # << >>
    /\ Len(Phase1Jobs) = 1
    /\ Phase1Jobs[1].tp = "InDatabase"
    /\ main.NotInDB = << "/src/app/main.h" >>
\* the Jobs submitted from the Phase 2 loop, in order
Phase2Jobs ==
    LET InPhase2Loop(e) == e.phase = 2
        sub == SelectSeq(log.submitted, InPhase2Loop)
    IN [k \in DOMAIN sub |-> sub[k].job]

\* C17 as stated: every Job submitted from Phase 2 carries the status
\* Recovered (DatabaseType::NotInDatabase), in every run mode.
C17_Phase2JobsAreRecovered ==
    \A k \in DOMAIN Phase2Jobs : Phase2Jobs[k].tp = "NotInDatabase"

\* C17 as amended: every Job submitted from Phase 2 carries the status
\* Recovered when the run is not in whole-directory mode, and
\* ProcessFullDirectory when it is.
C17_Phase2JobsAreRecoveredOrFullDirectory ==
    \A k \in DOMAIN Phase2Jobs :
        /\ main.IsProcessingAllDirectory => Phase2Jobs[k].tp = "ProcessFullDirectory"
        /\ ~main.IsProcessingAllDirectory => Phase2Jobs[k].tp = "NotInDatabase"

\* a run on explicit sources has submitted a Job for a Delayed file
C17_Witness ==
    /\ main.pc = "main_end"
    /\ ~main.IsProcessingAllDirectory
    /\ \E k \in DOMAIN Phase2Jobs :
          /\ Phase2Jobs[k].file = "/src/app/main.h"
          /\ Phase2Jobs[k].tp = "NotInDatabase"
\* C18: submission order: the Phase 1 Jobs are submitted in sorted order of
\* the input files, and the Phase 2 Jobs in the order in which their files
\* were appended to the Delayed list.
C18_SubmissionOrder ==
    /\ \A a, b \in DOMAIN Phase1Jobs :
          a < b => ~stringLess(Phase1Jobs[b].file, Phase1Jobs[a].file)
    /\ \A a, b \in DOMAIN Phase2Jobs :
          a < b => \E m, n \in DOMAIN main.NotInDB :
                      /\ m < n
                      /\ main.NotInDB[m] = Phase2Jobs[a].file
                      /\ main.NotInDB[n] = Phase2Jobs[b].file
\* the Jobs of Delayed files that a worker has started to run
RunningDelayed ==
    { job \in BagToSet(pool.running) :
        \E k \in DOMAIN Phase2Jobs : Phase2Jobs[k] = job }

\* C19: claim made by a Job: when the Job of a Delayed file starts running,
\* the output path of the file has not been inserted into the Existence
\* Guard Set by the dispatcher, so that the Job's own shouldProcess call for
\* the path returns true and the Job is the one that claims it.
C19_JobClaimsItsPath ==
    \A job \in RunningDelayed :
        /\ outputPath(projects[projectForFile(job.file)], job.file) \notin exists_files_
        /\ shouldProcess(job.file, projectForFile(job.file))
(***************************************************************************)
(* The workers as callers of all the guarded helpers: each call is one of  *)
(* CreateASTConsumer (try_insert), shouldProcess (addFile_Locked),         *)
(* GetFuncIndexFile (the same code as GetRefFile, on the other map)        *)
(* followed by AppendLine_Locked, and AddFileIndex.                        *)
(***************************************************************************)
NextLocks ==
    \E t \in Threads :
        \/ CreateASTConsumer_Begin(t, "/src/app/main.cc")
        \/ try_insert_Lock(t)
        \/ try_insert_Find(t)
        \/ try_insert_Insert(t)
        \/ try_insert_Return(t)
        \/ CreateASTConsumer_End(t)
        \/ \E filename \in { "/src/app/main.cc", "/src/ext/e.cc" } :
              shouldProcess_Begin(t, filename)
        \/ shouldProcess_Reject(t)
        \/ shouldProcess_Call(t)
        \/ addFile_Lock(t)
        \/ addFile_Find(t)
        \/ addFile_Insert(t)
        \/ addFile_Return(t)
        \/ GetRefFile_Begin(t, "func_index_files", "app")
        \/ GetRefFile_Lock(t)
        \/ GetRefFile_Emplace(t)
        \/ GetRefFile_Return(t)
        \/ AddFileIndex_Begin(t)
        \/ AppendLine_Lock(t)
        \/ AppendLine_Write1(t)
        \/ AppendLine_Write2(t)
        \/ AppendLine_Return(t)

SpecLocks == InitExists /\ [][NextLocks]_vars

\* the mutexes thread t holds
Held(t) ==
    (IF processedMutex = t THEN { "ProcessedSet::mutex_" } ELSE {})
    \cup (IF pmMutex = t THEN { "ProjectManager::mutex_" } ELSE {})
    \cup { "ref_files:" \o key : key \in { k \in DOMAIN ref_files :
                                               ref_files[k].mutex_ = t } }
    \cup { "func_index_files:" \o key :
              key \in { k \in DOMAIN func_index_files :
                          func_index_files[k].mutex_ = t } }
    \cup (IF file_index_.mutex_ = t THEN { "file_index_:fileIndex" } ELSE {})

\* thread t is outside the guarded helpers: idle or in the Unit Processor,
\* between try_insert and the construction of the consumer, in shouldProcess
\* before its call of addFile_Locked, or between GetRefFile and
\* AppendLine_Locked (the *_lock positions are calls that have not got the
\* mutex yet)
Outside(t) ==
    pc[t] \in { "idle", "CreateASTConsumer_end", "shouldProcess",
                "try_insert_lock", "addFile_lock", "GetRefFile_lock",
                "AppendLine_lock" }

\* C20: no orchestrator lock is held by a thread while it executes Unit
\* Processor work or after the guarded helper has returned to its caller:
\* try_insert, addFile_Locked, GetRefFile, GetFuncIndexFile and
\* AppendLine_Locked each release their lock before they return.
C20_NoLockHeldOutsideHelpers ==
    \A t \in Threads :
        /\ Outside(t) => Held(t) = {}
        /\ Cardinality(Held(t)) <= 1

\* one thread is back in CreateASTConsumer after try_insert and holds no
\* lock while another is inside AppendLine_Locked with the stream's mutex,
\* and a call of addFile_Locked has returned
C20_Witness ==
    /\ \E t, u \in Threads :
          /\ pc[t] = "CreateASTConsumer_end" /\ Held(t) = {}
          /\ pc[u] = "AppendLine_write2" /\ Held(u) = { "func_index_files:app" }
    /\ exists_files_ # {}
(***************************************************************************)
(* The same callers under a fair scheduler: a thread that is inside a call *)
(* and can take its next step takes it in the end.  Whether a thread       *)
(* starts another call is up to the Unit Processor, so the *_Begin steps   *)
(* are under no fairness; the number of calls is bounded, so a thread that *)
(* waits for a mutex is not overtaken for ever.                            *)
(***************************************************************************)
\* the calls the threads make while the fair scheduler is looked at
MaxWaits == 2

\* the next statement of the call thread t is in (each one moves pc[t])
Runs(t) ==
    \/ try_insert_Lock(t)
    \/ try_insert_Find(t)
    \/ try_insert_Insert(t)
    \/ try_insert_Return(t)
    \/ CreateASTConsumer_End(t)
    \/ shouldProcess_Reject(t)
    \/ shouldProcess_Call(t)
    \/ addFile_Lock(t)
    \/ addFile_Find(t)
    \/ addFile_Insert(t)
    \/ addFile_Return(t)
    \/ GetRefFile_Lock(t)
    \/ GetRefFile_Emplace(t)
    \/ GetRefFile_Return(t)
    \/ AppendLine_Lock(t)
    \/ AppendLine_Write1(t)
    \/ AppendLine_Write2(t)
    \/ AppendLine_Return(t)

\* the calls of NextLocks, at most MaxWaits of them
NextLocksFair ==
    \E t \in Threads :
        \/ calls < MaxWaits /\ CreateASTConsumer_Begin(t, "/src/app/main.cc")
        \/ \E filename \in { "/src/app/main.cc", "/src/ext/e.cc" } :
              calls < MaxWaits /\ shouldProcess_Begin(t, filename)
        \/ calls < MaxWaits /\ GetRefFile_Begin(t, "func_index_files", "app")
        \/ calls < MaxWaits /\ AddFileIndex_Begin(t)
        \/ Runs(t)

SpecLocksFair ==
    InitExists /\ [][NextLocksFair]_vars /\ \A t \in Threads : WF_pc(Runs(t))

\* the mutex thread t has requested and not got yet
Requested(t) ==
    IF pc[t] = "try_insert_lock" THEN { "ProcessedSet::mutex_" }
    ELSE IF pc[t] \in { "addFile_lock", "GetRefFile_lock" }
    THEN { "ProjectManager::mutex_" }
    ELSE IF pc[t] = "AppendLine_lock"
    THEN { streamOf(arg[t]) }
    ELSE {}

\* thread t waits for a mutex that thread u holds
Blocked(t, u) == Requested(t) \cap Held(u) # {}

\* C21: deadlock freedom: in every reachable state no thread holds more than
\* one of the mutexes, and a thread that requests a mutex holds none, so no
\* thread that holds a mutex waits for another thread; every thread that
\* requests a lock acquires it eventually.
C21_DeadlockFreedom ==
    /\ [](\A t \in Threads :
             /\ Cardinality(Held(t)) <= 1
             /\ Requested(t) # {} => Held(t) = {}
             /\ \A u \in Threads : Blocked(t, u) => ~(\E v \in Threads : Blocked(u, v)))
    /\ [][\A t \in Threads :
             (Requested(t) # {} /\ Held(t)' # {}) => Held(t)' = Requested(t)]_vars
    /\ \A t \in Threads : (Requested(t) # {}) ~> (Held(t) # {})

\* a thread waits for the registry mutex, which a thread inside GetRefFile
\* holds
C21_Witness ==
    \E t, u \in Threads :
        /\ t # u
        /\ pc[t] = "addFile_lock"
        /\ pc[u] = "GetRefFile_emplace"
        /\ Blocked(t, u)
(***************************************************************************)
(* More properties of the Dispatcher and of the workers it feeds.          *)
(***************************************************************************)
\* C22: monotone guard sets: no step of main() or of a worker removes an
\* entry of the Dedup Guard set or of the Existence Guard Set; an identity
\* or output path that is present stays present.
C22_MonotoneGuardSets ==
    [][/\ processed_ \subseteq processed_'
       /\ exists_files_ \subseteq exists_files_']_vars

\* main() has returned, and each set got two entries one after the other
C22_Witness ==
    /\ main.pc = "main_end"
    /\ Cardinality(processed_) >= 2
    /\ Cardinality(exists_files_) >= 2
(***************************************************************************)
(* More properties of the Output Aggregator.                               *)
(***************************************************************************)
\* every handle of old is in new, the same object, with what was written
\* through it still there
Kept(old, new) ==
    \A k \in DOMAIN old :
        /\ k \in DOMAIN new
        /\ new[k].nth = old[k].nth
        /\ Len(new[k].ofs_) >= Len(old[k].ofs_)
        /\ SubSeq(new[k].ofs_, 1, Len(old[k].ofs_)) = old[k].ofs_

\* C23: stream handle uniqueness: for every key and every interleaving of
\* concurrent GetRefFile or GetFuncIndexFile calls the handle in the map is
\* the first and only one constructed for the key, every call returns that
\* handle, and no step removes or replaces a handle or drops what was
\* written through it.
C23_StreamHandleUniqueness ==
    /\ [](/\ \A k \in DOMAIN ref_files : ref_files[k].nth = 1
          /\ \A k \in DOMAIN func_index_files : func_index_files[k].nth = 1
          /\ \A r \in BagToSet(history) :
                r.op = "GetRefFile" =>
                   /\ r.ret = 1
                   /\ \E id \in StreamIds :
                         /\ r.key = id[1] \o ":" \o id[2]
                         /\ id[2] \in DOMAIN (IF id[1] = "ref_files" THEN ref_files
                                               ELSE func_index_files))
    /\ [][/\ Kept(ref_files, ref_files')
          /\ Kept(func_index_files, func_index_files')]_vars

\* a call of GetRefFile is about to return the handle of a key which an
\* earlier call got and wrote a line through, and another key has a handle
C23_Witness ==
    /\ \E t \in Threads :
          /\ pc[t] = "GetRefFile_return"
          /\ streamOf(arg[t]) = "ref_files:app"
    /\ Count("GetRefFile", "ref_files:app", 1) >= 1
    /\ "app" \in DOMAIN ref_files
    /\ Len(ref_files["app"].ofs_) = 2
    /\ "base" \in DOMAIN ref_files
(***************************************************************************)
(* More properties of the Dispatcher: duplicates, recovery, Progress.      *)
(***************************************************************************)
\* C24: at most one Job per file: for every input list, including lists in
\* which the same file appears more than once, no two Jobs submitted from
\* the Phase 1 and Phase 2 loops together are for the same file.
C24_AtMostOneJobPerFile ==
    \A a, b \in DOMAIN log.submitted :
        a # b => filenameFor(log.submitted[a].job.file)
                    # filenameFor(log.submitted[b].job.file)
\* the Phase 2 loop is about to look for a command for a Delayed file
\* that has none of its own, with an empty known-file list
RecoveryFromEmptyList ==
    /\ InPhase2("recover")
    /\ directCommands = << >>
    /\ main.AllFiles = << >>

\* C25: recovery failure is never fatal: for a Delayed file with no direct
\* database entry, when the sorted known-file list is empty, the step of
\* main() finds no command, does not abort and goes on within the loop,
\* with nothing submitted.
C25_RecoveryFailureNotFatal ==
    [][(RecoveryFromEmptyList /\ main' # main) =>
          /\ main'.pc = "main_dispatch"
          /\ main'.step = "fallback"
          /\ main'.compileCommandsForFile = << >>
          /\ pool'.queue = pool.queue]_vars
\* the Phase 2 submissions for files without a database entry of their own
\* which sort after every entry of the known-file list
WrappedAround ==
    { k \in DOMAIN log.submitted :
        /\ log.submitted[k].phase = 2
        /\ getCompileCommands(cl.Compilations, log.submitted[k].job.file) = << >>
        /\ main.AllFiles # << >>
        /\ \A m \in DOMAIN main.AllFiles :
              stringLess(main.AllFiles[m], log.submitted[k].job.file) }

\* the command of job is the one of entry with the path of entry replaced
\* by the Job's file (and the additions for a .qdoc file)
BorrowedFrom(job, entry) ==
    LET n == Len(job.command) IN
    IF ~endswith(job.file, ".qdoc")
    THEN Substituted(job.command, commandOf(entry), entry, job.file)
    ELSE Substituted(<< job.command[1] >> \o SubSeq(job.command, 3, n - 2),
                     commandOf(entry), entry, job.file)

\* C26: recovery wrap-around: when the target path sorts after every entry
\* of a non-empty sorted known-file list, the command is borrowed from the
\* first (smallest) entry; with a non-empty known-file list the entry the
\* dispatcher reads is always one inside the list.
C26_RecoveryWrapAround ==
    /\ \A k \in WrappedAround :
          /\ \A m \in DOMAIN main.AllFiles :
                ~stringLess(main.AllFiles[m], main.AllFiles[1])
          /\ BorrowedFrom(log.submitted[k].job, main.AllFiles[1])
    /\ (InPhase2("recover") /\ directCommands = << >> /\ main.AllFiles # << >>)
          => lowerIndex \in DOMAIN main.AllFiles

\* /src/lib.cc sorts after both entries of the database and got the command
\* of the first one, /src/app/main.cc
C26_Witness ==
    \E k \in WrappedAround :
        /\ log.submitted[k].job.file = "/src/lib.cc"
        /\ main.AllFiles = << "/src/app/main.cc", "/src/ext/e.cc" >>
        /\ log.submitted[k].job.command
              = << "cc", "-c", "/src/lib.cc", "-o", "/src/app/main.cc.o" >>

(***************************************************************************)
(* proceedCommand: the command line the tool is invoked with, built from   *)
(* the command of the Job.                                                  *)
(***************************************************************************)
\* the for loop over the tokens of command, from token k on, with the three
\* flags it carries from one token to the next
RECURSIVE tokenWalk(_, _, _, _, _, _)
tokenWalk(command, Directory, k, previousIsDashI, previousNeedsMacro, hasNoStdInc) ==
    IF k > Len(command)
    THEN [command |-> command, hasNoStdInc |-> hasNoStdInc]
    ELSE
      LET A == command[k] IN
      IF previousIsDashI /\ A # "" /\ charAt(A, 1) # "/"
      THEN tokenWalk([command EXCEPT ![k] = Directory \o "/" \o A], Directory,
                     k + 1, FALSE, previousNeedsMacro, hasNoStdInc)
      ELSE IF A = "-I"
      THEN tokenWalk(command, Directory, k + 1, TRUE, previousNeedsMacro, hasNoStdInc)
      ELSE IF A = "-nostdinc" \/ A = "-nostdinc++"
      THEN tokenWalk(command, Directory, k + 1, previousIsDashI, previousNeedsMacro, TRUE)
      ELSE IF A = "-U" \/ A = "-D"
      THEN tokenWalk(command, Directory, k + 1, previousIsDashI, TRUE, hasNoStdInc)
      ELSE IF previousNeedsMacro
      THEN tokenWalk(command, Directory, k + 1, previousIsDashI, FALSE, hasNoStdInc)
      ELSE IF A = ""
      THEN tokenWalk(command, Directory, k + 1, FALSE, FALSE, hasNoStdInc)
      ELSE IF startswith(A, "-I") /\ charAt(A, 3) # "/"
      THEN tokenWalk([command EXCEPT ![k] = "-I" \o Directory \o "/" \o substr(A, 2)],
                     Directory, k + 1, FALSE, FALSE, hasNoStdInc)
      ELSE IF charAt(A, 1) = "-" \/ charAt(A, 1) = "/"
      THEN tokenWalk(command, Directory, k + 1, FALSE, FALSE, hasNoStdInc)
      ELSE tokenWalk([command EXCEPT ![k] = adjusted(A, Directory)], Directory,
                     k + 1, FALSE, FALSE, hasNoStdInc)

\* clang::tooling::getClangSyntaxOnlyAdjuster: the colour options go, and
\* -fsyntax-only is added at the end when the command has none
ClangSyntaxOnlyAdjuster(command) ==
    LET kept == SelectSeq(command,
                    LAMBDA A : /\ ~startswith(A, "-fcolor-diagnostics")
                               /\ ~startswith(A, "-fdiagnostics-color"))
    IN IF \E k \in DOMAIN kept : kept[k] = "-fsyntax-only"
       THEN kept ELSE Append(kept, "-fsyntax-only")

\* clang::tooling::getClangStripOutputAdjuster: every token that starts with
\* -o goes, and after a token that is exactly -o the next one too
RECURSIVE ClangStripOutputAdjuster(_, _)
ClangStripOutputAdjuster(command, i) ==
    IF i > Len(command) THEN << >>
    ELSE IF command[i] = "-o" THEN ClangStripOutputAdjuster(command, i + 2)
    ELSE IF startswith(command[i], "-o") THEN ClangStripOutputAdjuster(command, i + 1)
    ELSE << command[i] >> \o ClangStripOutputAdjuster(command, i + 1)

\* the command after the walk: the tokens with their paths made absolute
walkedCommand(job) == tokenWalk(job.command, job.dir, 1, FALSE, FALSE, FALSE).command

\* the command handed to clang::tooling::ToolInvocation
builtCommand(job) ==
    LET walk == tokenWalk(job.command, job.dir, 1, FALSE, FALSE, FALSE) IN
    ClangStripOutputAdjuster(ClangSyntaxOnlyAdjuster(walk.command), 1)
       \o (IF ~walk.hasNoStdInc THEN << "-isystem", "/builtins" >> ELSE << >>)
       \o << "-Qunused-arguments", "-Wno-unknown-warning-option" >>

\* the ToolInvocation of a Job: the command after the walk, and the command
\* it is constructed with
Invocation(job, walked, command) ==
    [job |-> job, walked |-> walked, command |-> command]

\* the longest command of a Job
MaxTokens == 4

\* the tokens of a command: the program (no file under Directory has its
\* name), include directories in both spellings, relative and absolute, a
\* file that exists under Directory, the options the walk looks for, and
\* the empty token
CommandTokens ==
    { "cc", "", "-I", "inc", "-Iinc", "-I/usr/include", "/src/lib.cc",
      "main.cc", "-nostdinc", "-nostdinc++", "-D", "-U", "-o" }

\* a worker is about to run one Job
InitBuilder ==
    /\ projects = ConstructedProjects
    /\ addResult = TRUE
    /\ InitIdle
    /\ cl = [ProjectPaths |-> << >>, ExternalProjectPaths |-> << >>,
             SourcePaths |-> << >>, ProcessAllSources |-> FALSE,
             Compilations |-> "none"]
    /\ main = [pc |-> "none"]
    /\ \E command \in SeqsUpTo(CommandTokens, MaxTokens) :
          pool = [queue |-> << >>,
                  running |-> SetToBag({Job(command, "/src/app", "/src/app/main.cc",
                                            "InDatabase")})]
    /\ out = [pages |-> {}, otherIndex |-> << >>]
    /\ log = [submitted |-> << >>, classified |-> << >>, delayed |-> << >>,
              finished |-> EmptyBag]

\* proceedCommand up to the construction of the ToolInvocation
proceedCommand_Build(job) ==
    /\ BagIn(job, pool.running)
    /\ pool' = [pool EXCEPT !.running = @ (-) SetToBag({job})]
    /\ log' = [log EXCEPT !.finished =
                  @ (+) SetToBag({Invocation(job, walkedCommand(job), builtCommand(job))})]
    /\ UNCHANGED <<regVars, guardVars, threadVars, streamVars, cl, main, out>>

NextBuilder == \E job \in BagToSet(pool.running) : proceedCommand_Build(job)

SpecBuilder == InitBuilder /\ [][NextBuilder]_vars

\* the Jobs whose command was built
Invocations == BagToSet(log.finished)

\* the options that switch the standard include directories off
NoStdInc == { "-nostdinc", "-nostdinc++" }

\* the command ends with the builtin include pair and the two warning options
endsWithBuiltins(command) ==
    /\ Len(command) >= 4
    /\ SubSeq(command, Len(command) - 3, Len(command))
          = << "-isystem", "/builtins", "-Qunused-arguments",
               "-Wno-unknown-warning-option" >>

\* token k of the command directly follows one of the given tokens
follows(command, k, tokens) == k > 1 /\ command[k - 1] \in tokens

\* C27 as stated: for every input token list the built command has the
\* appended pair -isystem /builtins iff no input token is -nostdinc or
\* -nostdinc++, and such a token is kept unchanged in the built command
C27_SystemInclude ==
    \A inv \in Invocations :
       LET command == inv.job.command IN
       /\ endsWithBuiltins(inv.command)
             <=> ~(\E k \in DOMAIN command : command[k] \in NoStdInc)
       /\ \A k \in DOMAIN command :
             command[k] \in NoStdInc
                => \E m \in DOMAIN inv.command : inv.command[m] = command[k]

\* the token is a relative path: not empty, not starting at the root
relative(A) == A # "" /\ charAt(A, 1) # "/"

\* llvm::sys::fs::exists for the files there are
exists(path) == getAbsolutePath(path) \in FilesOnDisk

\* no token of the command that directly follows -I, -D or -U is an option
argumentsGiven(command) ==
    \A k \in DOMAIN command :
       follows(command, k, { "-I", "-D", "-U" }) => ~startswith(command[k], "-")

reports == [k \in DOMAIN log.submitted |-> log.submitted[k].Progress]

\* C29: at every progress report of Phase 1 and Phase 2
\* 1 <= Progress <= |Sources|, so the percentage 100*Progress/|Sources| is
\* at most 100, and the reported values are strictly increasing over the run
C29_ProgressBound ==
    /\ \A k \in DOMAIN reports :
          /\ 1 <= reports[k]
          /\ reports[k] <= Len(main.Sources)
          /\ (100 * reports[k]) \div Len(main.Sources) <= 100
    /\ \A k, m \in DOMAIN reports : k < m => reports[k] < reports[m]

\* a run with a report in each phase: the first input is delayed without
\* being counted, the second is reported at 1 of 2, and the last report, of
\* 100%, is for the delayed one
C29_Witness ==
    /\ main.pc = "main_end"
    /\ Len(main.Sources) = 2
    /\ log.classified[1].outcome = "delayed"
    /\ reports = << 1, 2 >>
    /\ \E k, m \in DOMAIN log.submitted :
          /\ log.submitted[k].phase = 1
          /\ log.submitted[m].phase = 2
          /\ reports[m] = Len(main.Sources)

(***************************************************************************)
(* main() from the construction of projectManager on: the members of       *)
(* ProjectManager are constructed in the order of their declarations, then *)
(* the constructor body runs, then main() goes on as above.                *)
(***************************************************************************)
\* a ProjectManager that declares file_index_ before dir_creator_
memberOrder_FileIndexFirst == << "file_index_", "dir_creator_" >>

\* the two members whose constructors touch the file system, in the order
\* of their declarations
memberOrder == << "dir_creator_", "file_index_" >>

\* the directories DirCreator creates, in the order of its calls
DirCreatorPaths ==
    << outputPrefix, outputPrefix \o "/refs/_M", outputPrefix \o "/fnSearch" >>

\* llvm::sys::fs::create_directories without an error: path exists
\* afterwards, and so does every directory above it
create_directories(directories, path) ==
    directories \cup
       { SubSeq(path, 1, n) : n \in { m \in 1..Len(path) :
                                        m = Len(path) \/ charAt(path, m + 1) = "/" } }

\* file_index_ before its constructor has run
Unopened == [OpenedFile EXCEPT !.nth = 0]

\* main() has parsed the command line; the output directory may be there
\* from an earlier run
InitConstruct ==
    /\ projects = << >>
    /\ addResult = TRUE
    /\ processed_ = {}
    /\ processedMutex = 0
    /\ exists_files_ = {}
    /\ pmMutex = 0
    /\ pc = [t \in Threads |-> "idle"]
    /\ arg = [t \in Threads |-> Call("", "", 0)]
    /\ suc = [t \in Threads |-> FALSE]
    /\ history = EmptyBag
    /\ calls = 0
    /\ consumers = << >>
    /\ ref_files = << >>
    /\ func_index_files = << >>
    /\ file_index_ = Unopened
    /\ cl \in CommandLines
    /\ main = [pc |-> "main_projectManager", exitCode |-> "running",
               IsProcessingAllDirectory |-> FALSE, AllFiles |-> << >>,
               Sources |-> << >>, Progress |-> 0, NotInDB |-> << >>,
               i |-> 1, j |-> 1, step |-> "admit", file |-> "",
               compileCommandsForFile |-> << >>, locals |-> Locals,
               member |-> 1, created |-> 0]
    /\ pool = [queue |-> << >>, running |-> EmptyBag]
    /\ \E directories \in { {}, { outputPrefix } } :
          out = [pages |-> {}, otherIndex |-> << >>, directories |-> directories]
    /\ log = [submitted |-> << >>, classified |-> << >>, delayed |-> << >>,
              finished |-> EmptyBag]

\* the constructor of ProjectManager is at the member memberOrder[main.member]
Constructing(member) ==
    /\ main.pc = "main_projectManager"
    /\ main.member <= Len(memberOrder)
    /\ memberOrder[main.member] = member

\* DirCreator::DirCreator, one create_directories call: it creates the
\* directory, or it reports an error and the assertion after it fails
DirCreator_create_directories ==
    /\ Constructing("dir_creator_")
    /\ \E e \in BOOLEAN :
          IF e
          THEN /\ main' = [main EXCEPT !.pc = "aborted", !.exitCode = "SIGABRT"]
               /\ out' = out
          ELSE /\ out' = [out EXCEPT !.directories =
                             create_directories(@, DirCreatorPaths[main.created + 1])]
               /\ main' = IF main.created + 1 = Len(DirCreatorPaths)
                          THEN [main EXCEPT !.created = 0, !.member = @ + 1]
                          ELSE [main EXCEPT !.created = @ + 1]
    /\ UNCHANGED <<regVars, guardVars, threadVars, streamVars, cl, pool, log>>

\* FileIndex::FileIndex: the stream opens outputPrefix/fileIndex for
\* appending, which takes the directory to be there; assert(ofs_.is_open())
FileIndex_FileIndex ==
    /\ Constructing("file_index_")
    /\ IF outputPrefix \in out.directories
       THEN /\ file_index_' = OpenedFile
            /\ main' = [main EXCEPT !.member = @ + 1]
       ELSE /\ file_index_' = file_index_
            /\ main' = [main EXCEPT !.pc = "aborted", !.exitCode = "SIGABRT"]
    /\ UNCHANGED <<regVars, guardVars, threadVars, ref_files, func_index_files,
                   cl, pool, out, log>>

\* the body of the constructor, which registers the system projects; main()
\* then declares thread_pool and goes on to the -p and -e values
ProjectManager_ProjectManager ==
    /\ main.pc = "main_projectManager"
    /\ main.member > Len(memberOrder)
    /\ projects' = ConstructedProjects
    /\ main' = [main EXCEPT !.pc = "main_projects"]
    /\ UNCHANGED <<addResult, guardVars, threadVars, streamVars, cl, pool, out, log>>

NextConstruct ==
    \/ DirCreator_create_directories
    \/ FileIndex_FileIndex
    \/ ProjectManager_ProjectManager
    \/ NextDispatch

SpecConstruct == InitConstruct /\ [][NextConstruct]_vars

\* a Job has been submitted or run
JobsStarted ==
    \/ log.submitted # << >>
    \/ pool.queue # << >>
    \/ BagToSet(pool.running) # {}
    \/ BagToSet(log.finished) # {}

\* C30: outputRoot, outputRoot/refs/_M and outputRoot/fnSearch are created
\* before the file index stream is opened and before any Job is submitted
\* or run
C30_OutputDirectoriesFirst ==
    (file_index_ # Unopened \/ JobsStarted)
       => \A d \in DOMAIN DirCreatorPaths : DirCreatorPaths[d] \in out.directories

\* a Job has run, the file index is open and the three directories are there
C30_Witness ==
    /\ BagToSet(log.finished) # {}
    /\ file_index_ = OpenedFile
    /\ { "/out", "/out/refs", "/out/refs/_M", "/out/fnSearch" } \subseteq out.directories
====
